---- MODULE Spec2Model ----
(***************************************************************************)
(* Model of the chess rules engine in core/src/game.rs: the Game           *)
(* aggregate, its constructor Game::new and its single mutating operation  *)
(* Game::process_input, together with the move generation, the attack and *)
(* king-threat caches and the legality filter that process_input uses.     *)
(*                                                                         *)
(* Conventions.  A Position is the record [x, y] with x the file (a = 1,   *)
(* ..., h = 8) and y the rank ('1' = 1, ..., '8' = 8); Position::add is    *)
(* plain addition, so a result may leave 1..8 exactly as the char          *)
(* arithmetic of the source leaves 'a'..'h' / '1'..'8'.  The board is the  *)
(* 64-slot array of the source, indexed here from 1.  Option<Piece> is a   *)
(* record; None is the record NoPiece.  A Vec is a sequence.  The two      *)
(* lists the source fills through a Mutex from a parallel loop are kept in *)
(* the order of ALL_POSSIBLE_SQUARES (the order of a one-thread run); the  *)
(* engine only reads their membership, their length and, when the length   *)
(* is one, their single element.                                           *)
(***************************************************************************)
EXTENDS Integers, Sequences, FiniteSets, TLC

BOARD_SIZE == 8
TOTAL_SQUARES == BOARD_SIZE * BOARD_SIZE

White == "White"
Black == "Black"
Color == {White, Black}

invert(color) == IF color = White THEN Black ELSE White

Pawn == "Pawn"
Bishop == "Bishop"
Knight == "Knight"
King == "King"
Rook == "Rook"
Queen == "Queen"
PieceType == {Pawn, Bishop, Knight, King, Rook, Queen}

Piece(piece_type, color) == [piece_type |-> piece_type, color |-> color]
NoPiece == [piece_type |-> "None", color |-> "None"]

Position(x, y) == [x |-> x, y |-> y]
add(pos, dx, dy) == Position(pos.x + dx, pos.y + dy)
as_index(pos) == (pos.y - 1) * BOARD_SIZE + pos.x
\* try_as_index(pos) is Some(..)
try_as_index_is_some(pos) ==
    ~(pos.x < 1 \/ pos.x > BOARD_SIZE \/ pos.y < 1 \/ pos.y > BOARD_SIZE)

\* array[i], for an array held as a sequence.
at(array, i) == Head(SubSeq(array, i, i))

\* The direction tables hold, per direction, the offsets 1..8 along a unit
\* vector; the model keeps the unit vector and multiplies by the step.
Delta(dx, dy) == [dx |-> dx, dy |-> dy]
HORIZONTAL_DIRECTIONS == <<Delta(1, 0), Delta(-1, 0), Delta(0, 1), Delta(0, -1)>>
DIAGONAL_DIRECTIONS == <<Delta(1, 1), Delta(1, -1), Delta(-1, 1), Delta(-1, -1)>>

Normal == "Normal"
Jump == "Jump"
Enpassant == "Enpassant"
LongCastle == "LongCastle"
ShortCastle == "ShortCastle"

Move(piece, from, to, captured_piece, move_type, traversed_squares) ==
    [piece |-> piece, from |-> from, to |-> to, captured_piece |-> captured_piece,
     move_type |-> move_type, traversed_squares |-> traversed_squares]

\* seq.contains(e)
Contains(seq, e) == SelectSeq(seq, LAMBDA s : s = e) # <<>>

(***************************************************************************)
(* Game::new: the board.                                                   *)
(***************************************************************************)
\* Mutant: the kings stand on the d file and the queens on the e file.
InitialPiece_kings_on_d(x, y) ==
    CASE y = 2 -> Piece(Pawn, White)
      [] y = 7 -> Piece(Pawn, Black)
      [] x \in {1, 8} /\ y = 1 -> Piece(Rook, White)
      [] x \in {1, 8} /\ y = 8 -> Piece(Rook, Black)
      [] x \in {2, 7} /\ y = 1 -> Piece(Knight, White)
      [] x \in {2, 7} /\ y = 8 -> Piece(Knight, Black)
      [] x \in {3, 6} /\ y = 1 -> Piece(Bishop, White)
      [] x \in {3, 6} /\ y = 8 -> Piece(Bishop, Black)
      [] x = 5 /\ y = 1 -> Piece(Queen, White)
      [] x = 5 /\ y = 8 -> Piece(Queen, Black)
      [] x = 4 /\ y = 1 -> Piece(King, White)
      [] x = 4 /\ y = 8 -> Piece(King, Black)
      [] OTHER -> NoPiece

InitialPiece(x, y) ==
    CASE y = 2 -> Piece(Pawn, White)
      [] y = 7 -> Piece(Pawn, Black)
      [] x \in {1, 8} /\ y = 1 -> Piece(Rook, White)
      [] x \in {1, 8} /\ y = 8 -> Piece(Rook, Black)
      [] x \in {2, 7} /\ y = 1 -> Piece(Knight, White)
      [] x \in {2, 7} /\ y = 8 -> Piece(Knight, Black)
      [] x \in {3, 6} /\ y = 1 -> Piece(Bishop, White)
      [] x \in {3, 6} /\ y = 8 -> Piece(Bishop, Black)
      [] x = 4 /\ y = 1 -> Piece(Queen, White)
      [] x = 4 /\ y = 8 -> Piece(Queen, Black)
      [] x = 5 /\ y = 1 -> Piece(King, White)
      [] x = 5 /\ y = 8 -> Piece(King, Black)
      [] OTHER -> NoPiece

RECURSIVE initial_board_from(_)
initial_board_from(k) ==
    IF k > TOTAL_SQUARES THEN <<>>
    ELSE <<InitialPiece(((k - 1) % BOARD_SIZE) + 1, ((k - 1) \div BOARD_SIZE) + 1)>>
         \o initial_board_from(k + 1)
InitialBoard == initial_board_from(1)

\* The attacked squares Game::new writes down: per file x the pushes (x,3),
\* (x,2) and, because x != 'a' || x != 'h' holds for every x, (x,1).
RECURSIVE initial_protected_from(_, _, _, _)
initial_protected_from(x, near, home, far) ==
    IF x > BOARD_SIZE THEN <<>>
    ELSE <<Position(x, far), Position(x, near)>>
         \o (IF x # 1 \/ x # 8 THEN <<Position(x, home)>> ELSE <<>>)
         \o initial_protected_from(x + 1, near, home, far)
InitialProtected(near, home, far) == initial_protected_from(1, near, home, far)

(***************************************************************************)
(* Private helpers of Game.  g is a Game value (self, or the scratch clone *)
(* of piece_is_not_pinned).                                                *)
(***************************************************************************)
\* array[color as usize]
of_color(array, color) == IF color = White THEN array.White ELSE array.Black

check(g, color) == of_color(g.pieces_attacking_king, color) # <<>>

\* None -> "None", Some(OutOfBoundary) -> "OutOfBoundary", Some(Piece(c)) -> c.
obstacles_in_one_move(g, pos) ==
    IF ~try_as_index_is_some(pos) THEN "OutOfBoundary"
    ELSE LET p == at(g.board, as_index(pos))
         IN IF p = NoPiece THEN "None" ELSE p.color

pos_protected(g, pos, color) == Contains(of_color(g.protected_squares, color), pos)

back_rank(color) == IF color = White THEN 1 ELSE 8

can_short_castle(g, color) ==
    /\ ~check(g, color)
    /\ of_color(g.able_to_short_castle, color)
    /\ at(g.board, as_index(Position(6, back_rank(color)))) = NoPiece
    /\ at(g.board, as_index(Position(7, back_rank(color)))) = NoPiece
    /\ ~pos_protected(g, Position(6, back_rank(color)), invert(color))
    /\ ~pos_protected(g, Position(7, back_rank(color)), invert(color))

can_long_castle(g, color) ==
    /\ ~check(g, color)
    /\ of_color(g.able_to_long_castle, color)
    /\ at(g.board, as_index(Position(2, back_rank(color)))) = NoPiece
    /\ at(g.board, as_index(Position(3, back_rank(color)))) = NoPiece
    /\ at(g.board, as_index(Position(4, back_rank(color)))) = NoPiece
    /\ ~pos_protected(g, Position(3, back_rank(color)), invert(color))
    /\ ~pos_protected(g, Position(4, back_rank(color)), invert(color))

\* One ray: the zip of x_path and y_path is walked from step i on, with the
\* squares traversed so far; the walk ends at the first obstacle.
RECURSIVE moves_in_one_direction_from(_, _, _, _, _, _, _)
moves_in_one_direction_from(g, dir, pos, piece, get_protected, i, traversed_squares) ==
    IF i > BOARD_SIZE THEN <<>>
    ELSE LET new_pos == add(pos, dir.dx * i, dir.dy * i)
             obstacle == obstacles_in_one_move(g, new_pos)
             traversed == Append(traversed_squares, new_pos)
         IN IF obstacle # "None"
            THEN \* an obstacle ends the ray; a piece on it may be a destination
                 IF obstacle # "OutOfBoundary" /\ (get_protected \/ obstacle # piece.color)
                 THEN <<Move(piece, pos, new_pos, at(g.board, as_index(new_pos)), Normal, traversed)>>
                 ELSE <<>>
            ELSE <<Move(piece, pos, new_pos, at(g.board, as_index(new_pos)), Normal, traversed)>>
                 \o moves_in_one_direction_from(g, dir, pos, piece, get_protected, i + 1, traversed)

get_moves_in_one_direction(g, dir, pos, piece, get_protected) ==
    moves_in_one_direction_from(g, dir, pos, piece, get_protected, 1, <<pos>>)

\* directions.flat_map(get_moves_in_one_direction).collect(), for the four
\* directions of a table.
moves_in_four_directions(g, directions, pos, piece, get_protected) ==
    get_moves_in_one_direction(g, at(directions, 1), pos, piece, get_protected)
    \o get_moves_in_one_direction(g, at(directions, 2), pos, piece, get_protected)
    \o get_moves_in_one_direction(g, at(directions, 3), pos, piece, get_protected)
    \o get_moves_in_one_direction(g, at(directions, 4), pos, piece, get_protected)

possible_horizontal_vertical_moves(g, pos, piece, get_protected) ==
    moves_in_four_directions(g, HORIZONTAL_DIRECTIONS, pos, piece, get_protected)

possible_diagonal_moves(g, pos, piece, get_protected) ==
    moves_in_four_directions(g, DIAGONAL_DIRECTIONS, pos, piece, get_protected)

\* QUEEN_DIRECTIONS is HORIZONTAL_DIRECTIONS followed by DIAGONAL_DIRECTIONS.
possible_queen_moves(g, pos, piece, get_protected) ==
    moves_in_four_directions(g, HORIZONTAL_DIRECTIONS, pos, piece, get_protected)
    \o moves_in_four_directions(g, DIAGONAL_DIRECTIONS, pos, piece, get_protected)

pawn_direction(color) == IF color = White THEN 1 ELSE -1
\* Mutant: the starting ranks of the two colors are exchanged.
pawn_start_rank_exchanged(color) == IF color = White THEN 7 ELSE 2

pawn_start_rank(color) == IF color = White THEN 2 ELSE 7

\* Mutant: every forward step is a step of one square.
pawn_step_by_one(g, pos, piece, y) ==
    LET new_pos == add(pos, 0, pawn_direction(piece.color))
    IN Move(piece, pos, new_pos, at(g.board, as_index(new_pos)), Normal, <<pos, new_pos>>)

pawn_step(g, pos, piece, y) ==
    LET new_pos == add(pos, 0, pawn_direction(piece.color) * y)
    IN Move(piece, pos, new_pos, at(g.board, as_index(new_pos)), Normal, <<pos, new_pos>>)

pawn_step_is_free(g, pos, piece, y) ==
    obstacles_in_one_move(g, add(pos, 0, pawn_direction(piece.color) * y)) = "None"

\* Mutant: the second step is tried from every rank.
pawn_normal_moves_from_any_rank(g, pos, piece) ==
    IF ~pawn_step_is_free(g, pos, piece, 1) THEN <<>>
    ELSE IF pawn_step_is_free(g, pos, piece, 2)
    THEN <<pawn_step(g, pos, piece, 1), pawn_step(g, pos, piece, 2)>>
    ELSE <<pawn_step(g, pos, piece, 1)>>

\* The forward steps of a pawn: the loop over 1..2 (1..3 on the starting rank)
\* that breaks at the first obstacle.
pawn_normal_moves(g, pos, piece) ==
    IF ~pawn_step_is_free(g, pos, piece, 1) THEN <<>>
    ELSE IF pos.y = pawn_start_rank(piece.color) /\ pawn_step_is_free(g, pos, piece, 2)
    THEN <<pawn_step(g, pos, piece, 1), pawn_step(g, pos, piece, 2)>>
    ELSE <<pawn_step(g, pos, piece, 1)>>

pawn_capture_move(g, pos, piece, get_protected, dx) ==
    LET new_pos == add(pos, dx, pawn_direction(piece.color))
        obstacle == obstacles_in_one_move(g, new_pos)
    IN IF obstacle = "OutOfBoundary" THEN <<>>
       ELSE IF obstacle = "None"
            THEN IF get_protected
                 THEN <<Move(piece, pos, new_pos, at(g.board, as_index(new_pos)), Normal, <<pos, new_pos>>)>>
                 ELSE <<>>
            ELSE IF get_protected \/ obstacle # piece.color
                 THEN <<Move(piece, pos, new_pos, at(g.board, as_index(new_pos)), Normal, <<pos, new_pos>>)>>
                 ELSE <<>>

Abs(n) == IF n < 0 THEN -n ELSE n

pawn_enpassant_moves(g, pos, piece) ==
    IF g.history = <<>> THEN <<>>
    ELSE LET last_move == at(g.history, Len(g.history))
             direction == pawn_direction(piece.color)
         IN IF /\ last_move.piece.piece_type = Pawn
               /\ Abs(last_move.from.y - last_move.to.y) = 2
               /\ (last_move.to = add(pos, 1, 0) \/ last_move.to = add(pos, -1, 0))
            THEN LET new_pos == IF last_move.to = add(pos, 1, 0)
                                THEN add(pos, 1, direction)
                                ELSE add(pos, -1, direction)
                 IN <<Move(piece, pos, new_pos,
                           at(g.board, as_index(add(new_pos, 0, -direction))),
                           Enpassant, <<pos, new_pos>>)>>
            ELSE <<>>

possbile_pawn_moves(g, pos, piece, get_protected) ==
    (IF ~get_protected THEN pawn_normal_moves(g, pos, piece) ELSE <<>>)
    \o pawn_capture_move(g, pos, piece, get_protected, 1)
    \o pawn_capture_move(g, pos, piece, get_protected, -1)
    \o (IF ~get_protected THEN pawn_enpassant_moves(g, pos, piece) ELSE <<>>)

knight_move(g, pos, piece, get_protected, dx, dy) ==
    LET new_pos == add(pos, dx, dy)
        obstacle == obstacles_in_one_move(g, new_pos)
    IN IF obstacle = "OutOfBoundary" THEN <<>>
       ELSE IF obstacle = "None" \/ get_protected \/ piece.color # obstacle
            THEN <<Move(piece, pos, new_pos, at(g.board, as_index(new_pos)), Jump, <<pos, new_pos>>)>>
            ELSE <<>>

\* dxdys, in the order of the source.
possible_knight_moves(g, pos, piece, get_protected) ==
    knight_move(g, pos, piece, get_protected, 2, 1)
    \o knight_move(g, pos, piece, get_protected, 2, -1)
    \o knight_move(g, pos, piece, get_protected, -2, 1)
    \o knight_move(g, pos, piece, get_protected, -2, -1)
    \o knight_move(g, pos, piece, get_protected, 1, 2)
    \o knight_move(g, pos, piece, get_protected, -1, 2)
    \o knight_move(g, pos, piece, get_protected, 1, -2)
    \o knight_move(g, pos, piece, get_protected, -1, -2)

king_step(g, pos, piece, get_protected, dx, dy) ==
    LET new_pos == add(pos, dx, dy)
        obstacle == obstacles_in_one_move(g, new_pos)
    IN IF obstacle = "OutOfBoundary" THEN <<>>
       ELSE IF obstacle = "None"
            THEN IF get_protected \/ ~pos_protected(g, new_pos, invert(piece.color))
                 THEN <<Move(piece, pos, new_pos, at(g.board, as_index(new_pos)), Normal, <<pos, new_pos>>)>>
                 ELSE <<>>
            ELSE IF get_protected
                    \/ (~pos_protected(g, new_pos, invert(piece.color)) /\ piece.color # obstacle)
                 THEN <<Move(piece, pos, new_pos, at(g.board, as_index(new_pos)), Normal, <<pos, new_pos>>)>>
                 ELSE <<>>

possible_king_moves(g, pos, piece, get_protected) ==
    king_step(g, pos, piece, get_protected, -1, 1)
    \o king_step(g, pos, piece, get_protected, 0, 1)
    \o king_step(g, pos, piece, get_protected, 1, 1)
    \o king_step(g, pos, piece, get_protected, 1, 0)
    \o king_step(g, pos, piece, get_protected, 1, -1)
    \o king_step(g, pos, piece, get_protected, 0, -1)
    \o king_step(g, pos, piece, get_protected, -1, -1)
    \o king_step(g, pos, piece, get_protected, -1, 0)
    \o (IF ~get_protected /\ can_long_castle(g, piece.color)
        THEN <<Move(piece, pos, add(pos, -2, 0), at(g.board, as_index(add(pos, -2, 0))),
                    LongCastle, <<pos, add(pos, -1, 0), add(pos, -2, 0)>>)>>
        ELSE <<>>)
    \o (IF ~get_protected /\ can_short_castle(g, piece.color)
        THEN <<Move(piece, pos, add(pos, 2, 0), at(g.board, as_index(add(pos, 2, 0))),
                    ShortCastle, <<pos, add(pos, 1, 0), add(pos, 2, 0)>>)>>
        ELSE <<>>)

\* The movement rules of one piece, before the check and pin filters.
piece_moves(g, pos, piece, get_protected) ==
    CASE piece.piece_type = King -> possible_king_moves(g, pos, piece, get_protected)
      [] piece.piece_type = Queen -> possible_queen_moves(g, pos, piece, get_protected)
      [] piece.piece_type = Rook -> possible_horizontal_vertical_moves(g, pos, piece, get_protected)
      [] piece.piece_type = Bishop -> possible_diagonal_moves(g, pos, piece, get_protected)
      [] piece.piece_type = Knight -> possible_knight_moves(g, pos, piece, get_protected)
      [] piece.piece_type = Pawn -> possbile_pawn_moves(g, pos, piece, get_protected)

\* The board of a game after moving mv.piece from mv.from to mv.to, with the
\* en passant removal (the same assignments in process_input and in
\* piece_is_not_pinned).
board_after_relocation(board, mv) ==
    LET b1 == [board EXCEPT ![as_index(mv.from)] = NoPiece]
        b2 == [b1 EXCEPT ![as_index(mv.to)] = mv.piece]
    IN IF mv.move_type = Enpassant
       THEN [b2 EXCEPT ![as_index(add(mv.to, 0, -pawn_direction(mv.piece.color)))] = NoPiece]
       ELSE b2

RECURSIVE possible_moves(_, _, _, _)

\* ALL_POSSIBLE_SQUARES[k - 1]: a1..a8, b1..b8, ..., h1..h8.
ALL_POSSIBLE_SQUARES(k) == Position(((k - 1) \div BOARD_SIZE) + 1, ((k - 1) % BOARD_SIZE) + 1)

\* possible_moves of a square when it holds a piece of one of colors.
moves_of_square(g, pos, get_protected, filter_pinned, colors) ==
    IF at(g.board, as_index(pos)).color \in colors
    THEN possible_moves(g, pos, get_protected, filter_pinned)
    ELSE <<>>

\* The moves of the squares first..last of ALL_POSSIBLE_SQUARES, in that order.
RECURSIVE moves_of_squares(_, _, _, _, _, _)
moves_of_squares(g, first, last, get_protected, filter_pinned, colors) ==
    IF first = last
    THEN moves_of_square(g, ALL_POSSIBLE_SQUARES(first), get_protected, filter_pinned, colors)
    ELSE moves_of_squares(g, first, (first + last) \div 2,
                          get_protected, filter_pinned, colors)
         \o moves_of_squares(g, ((first + last) \div 2) + 1, last,
                             get_protected, filter_pinned, colors)

\* ALL_POSSIBLE_SQUARES.flat_map(possible_moves), for the pieces of colors.
moves_of_all_squares(g, get_protected, filter_pinned, colors) ==
    moves_of_squares(g, 1, TOTAL_SQUARES, get_protected, filter_pinned, colors)

\* The order in which the tasks of a par_iter().for_each loop take the lock
\* of the list they push into: in the order of ALL_POSSIBLE_SQUARES, as one
\* thread would, or the task of the last square first.  g.schedule is not a
\* field of the struct: it travels with the game value, so that every loop
\* run on behalf of one call meets the same thread pool.
Sequential == "Sequential"
Backward == "Backward"
Schedules == {Sequential, Backward}

\* What the tasks of the squares first..last push, task after task in the
\* order of g.schedule; the pushes of one task stay in their order.
RECURSIVE pushes_of_squares(_, _, _, _, _, _)
pushes_of_squares(g, first, last, get_protected, filter_pinned, colors) ==
    IF first = last
    THEN moves_of_square(g, ALL_POSSIBLE_SQUARES(first), get_protected, filter_pinned, colors)
    ELSE IF g.schedule = Backward
    THEN pushes_of_squares(g, ((first + last) \div 2) + 1, last,
                           get_protected, filter_pinned, colors)
         \o pushes_of_squares(g, first, (first + last) \div 2,
                              get_protected, filter_pinned, colors)
    ELSE pushes_of_squares(g, first, (first + last) \div 2,
                           get_protected, filter_pinned, colors)
         \o pushes_of_squares(g, ((first + last) \div 2) + 1, last,
                              get_protected, filter_pinned, colors)

\* moves.map(|mv| mv.to)
destinations(moves) == [i \in 1..Len(moves) |-> moves[i].to] \o <<>>

\* The list get_all_protected_squares builds for color: every piece of color
\* pushes the destinations of its attack moves.  The pushes of
\* get_all_protected_squares and of pieces_attacking_king are made under
\* par_iter, so the order of the entries is that of the schedule.
protected_squares_of(g, color, filter_pinned) ==
    destinations(pushes_of_squares(g, 1, TOTAL_SQUARES, TRUE, filter_pinned, {color}))

get_all_protected_squares(g, filter_pinned) ==
    [White |-> protected_squares_of(g, White, filter_pinned),
     Black |-> protected_squares_of(g, Black, filter_pinned)]

\* The entries (piece, traversed squares) of the moves that capture a king.
king_captures(moves) ==
    [i \in 1..Len(moves) |-> [piece |-> moves[i].piece, path |-> moves[i].traversed_squares]]
    \o <<>>

RECURSIVE piece_is_not_pinned(_, _)

\* The pin filter of possible_moves (lines 1066-1073) on the moves that
\* capture a king.
unpinned_captures(g, filter_pinned, captures) ==
    IF filter_pinned
    THEN SelectSeq(captures, LAMBDA x : piece_is_not_pinned(g, x))
    ELSE captures

\* The list pieces_attacking_king builds for the king of color: every move of
\* a piece of the other color that captures a king pushes an entry.  The pin
\* filter judges each move by itself, so it is applied to the captures of a
\* king alone and not to the moves the loop passes over.
attackers_of_king(g, color, filter_pinned) ==
    king_captures(
        unpinned_captures(g, filter_pinned,
            SelectSeq(pushes_of_squares(g, 1, TOTAL_SQUARES, FALSE, FALSE, {invert(color)}),
                      LAMBDA mv : mv.captured_piece.piece_type = King)))

\* The method pieces_attacking_king; the field of that name is the variable.
find_pieces_attacking_king(g, filter_pinned) ==
    [White |-> attackers_of_king(g, White, filter_pinned),
     Black |-> attackers_of_king(g, Black, filter_pinned)]

\* The attacked squares stored on the scratch clone.  The clone is read by
\* the moves of the pieces of the other color only, and these read the list
\* of color alone (the steps and the castles of their king), so that list
\* alone is computed.
attacked_squares_on_clone(moved, color) ==
    IF color = White
    THEN [moved.protected_squares EXCEPT !.White = protected_squares_of(moved, White, FALSE)]
    ELSE [moved.protected_squares EXCEPT !.Black = protected_squares_of(moved, Black, FALSE)]

\* The scratch clone is built once and then read: the bound variables hold the
\* clone after the relocation and after its attacked squares are stored.  Of
\* the king threats recomputed on the clone only the mover's list is read.
piece_is_not_pinned(g, mv) ==
    \A moved \in {[g EXCEPT !.turn = invert(g.turn),
                            !.board = board_after_relocation(g.board, mv)]} :
        \A game_after_move \in {[moved EXCEPT
                !.protected_squares = attacked_squares_on_clone(moved, mv.piece.color)]} :
            attackers_of_king(game_after_move, mv.piece.color, FALSE) = <<>>

\* Lines 1040-1064: under a single check a piece other than the king keeps
\* the moves onto the path of the attacker.
protecting_moves(g, piece, get_protected, moves) ==
    IF ~get_protected /\ check(g, piece.color) /\ piece.piece_type # King
    THEN SelectSeq(moves, LAMBDA x :
             Contains(Head(of_color(g.pieces_attacking_king, piece.color)).path, x.to))
    ELSE moves

\* Lines 1066-1073: the pin filter.
not_pinned_moves(g, filter_pinned, moves) ==
    IF filter_pinned
    THEN SelectSeq(moves, LAMBDA x : piece_is_not_pinned(g, x))
    ELSE moves

\* Mutant: the movement rules alone, with no filter for checks and pins.
moves_of_piece_unfiltered(g, pos, piece, get_protected, filter_pinned) ==
    IF piece = NoPiece THEN <<>> ELSE piece_moves(g, pos, piece, get_protected)

moves_of_piece(g, pos, piece, get_protected, filter_pinned) ==
    IF piece = NoPiece THEN <<>>
    ELSE IF /\ ~get_protected
            /\ check(g, piece.color)
            /\ Len(of_color(g.pieces_attacking_king, piece.color)) > 1
            /\ piece.piece_type # King
    THEN <<>> \* double check: only the king can move
    ELSE not_pinned_moves(g, filter_pinned,
             protecting_moves(g, piece, get_protected,
                 piece_moves(g, pos, piece, get_protected)))

possible_moves(g, pos, get_protected, filter_pinned) ==
    moves_of_piece(g, pos, at(g.board, as_index(pos)), get_protected, filter_pinned)

\* Lines 1101-1105: the moves of the piece on from that end on to.
matching_moves(g, from, to) ==
    SelectSeq(possible_moves(g, from, FALSE, TRUE), LAMBDA x : x.to = to)

\* Lines 1106-1111: None (<<>>) or Some(matching_moves[0]) (<<move>>).
first_match(moves) == IF moves = <<>> THEN <<>> ELSE <<Head(moves)>>

\* Mutant: the piece on from is not required to be of the side to move.
get_move_if_valid_of_any_color(g, from, to) ==
    IF obstacles_in_one_move(g, from) \in Color
    THEN first_match(matching_moves(g, from, to))
    ELSE <<>>

get_move_if_valid(g, from, to) ==
    IF obstacles_in_one_move(g, from) \in Color /\ g.turn = obstacles_in_one_move(g, from)
    THEN first_match(matching_moves(g, from, to))
    ELSE <<>>

get_all_possible_moves(g) == moves_of_all_squares(g, TRUE, TRUE, Color)

get_valid_moves(g, pos) == possible_moves(g, pos, FALSE, TRUE)

\* Mutant: the valid moves are pushed by the tasks like the attacked squares.
get_all_currently_valid_moves_pushed(g) ==
    pushes_of_squares(g, 1, TOTAL_SQUARES, FALSE, TRUE, {g.turn})

\* flat_map and collect keep the order of ALL_POSSIBLE_SQUARES.
get_all_currently_valid_moves(g) == moves_of_all_squares(g, FALSE, TRUE, {g.turn})

moves_of_color(moves, color) == moves # <<>> /\ Head(moves).piece.color = color

\* for x in 'a'..='h', for y in '1'..='8': no square yields moves of color.
no_possible_moves(g, color) ==
    \A x \in 1..BOARD_SIZE, y \in 1..BOARD_SIZE :
        ~moves_of_color(possible_moves(g, Position(x, y), FALSE, TRUE), color)

is_a_draw(g) ==
    \/ g.number_of_moves_without_captures_or_pawn_moves >= 50
    \/ \E table \in {g.number_of_repeated_board_states} :
           \E key \in DOMAIN table : table[key] >= 3

\* Game::new before the repetition table receives the initial position.
NewGameFields ==
    [turn |-> White,
     board |-> InitialBoard,
     captured |-> [White |-> <<>>, Black |-> <<>>],
     history |-> <<>>,
     protected_squares |-> [White |-> InitialProtected(2, 1, 3),
                            Black |-> InitialProtected(7, 8, 6)],
     pieces_attacking_king |-> [White |-> <<>>, Black |-> <<>>],
     number_of_moves_without_captures_or_pawn_moves |-> 0,
     number_of_repeated_board_states |-> <<>>,
     able_to_long_castle |-> [White |-> TRUE, Black |-> TRUE],
     able_to_short_castle |-> [White |-> TRUE, Black |-> TRUE],
     schedule |-> Sequential]

repetition_key(g) == <<g.turn, g.board, get_all_possible_moves(g)>>

new ==
    [NewGameFields EXCEPT
        !.number_of_repeated_board_states = (repetition_key(NewGameFields) :> 1)]

(***************************************************************************)
(* Game::process_input.  A UserInput is a record; the returned              *)
(* Option<UserOutput> is a tuple whose first element names the variant:      *)
(* <<"None">>, <<"InvalidMove">>, <<"Promotion", pos>>, <<"CheckMate">>,     *)
(* <<"StaleMate">>, <<"Draw">>.  The result of a call is the pair of the     *)
(* game after the call and the returned value.                              *)
(***************************************************************************)
MoveInput(from, to) == [kind |-> "Move", from |-> from, to |-> to]
PromotionInput(piece, pos) == [kind |-> "Promotion", piece |-> piece, pos |-> pos]

Result(g, output) == [game |-> g, output |-> output]

set_color(array, color, value) ==
    IF color = White THEN [array EXCEPT !.White = value] ELSE [array EXCEPT !.Black = value]

\* Mutant: the rook of a short castle is put on f and stays on h as well.
board_after_castle_rook_stays(board, mv) ==
    LET y == back_rank(mv.piece.color)
    IN IF mv.move_type = LongCastle
       THEN [[board EXCEPT ![as_index(Position(1, y))] = NoPiece]
                    EXCEPT ![as_index(Position(4, y))] = Piece(Rook, mv.piece.color)]
       ELSE IF mv.move_type = ShortCastle
       THEN [board EXCEPT ![as_index(Position(6, y))] = Piece(Rook, mv.piece.color)]
       ELSE board

\* The rook relocation of a castle.
board_after_castle(board, mv) ==
    LET y == back_rank(mv.piece.color)
    IN IF mv.move_type = LongCastle
       THEN [[board EXCEPT ![as_index(Position(1, y))] = NoPiece]
                    EXCEPT ![as_index(Position(4, y))] = Piece(Rook, mv.piece.color)]
       ELSE IF mv.move_type = ShortCastle
       THEN [[board EXCEPT ![as_index(Position(8, y))] = NoPiece]
                    EXCEPT ![as_index(Position(6, y))] = Piece(Rook, mv.piece.color)]
       ELSE board

\* Mutant: a king move revokes the short castle only.
castling_rights_after_king_keeps_long(g, mv) ==
    LET color == mv.piece.color
    IN IF mv.piece.piece_type = King
       THEN [long |-> g.able_to_long_castle,
             short |-> set_color(g.able_to_short_castle, color, FALSE)]
       ELSE IF mv.piece.piece_type = Rook /\ mv.from = Position(1, back_rank(color))
       THEN [long |-> set_color(g.able_to_long_castle, color, FALSE),
             short |-> g.able_to_short_castle]
       ELSE IF mv.piece.piece_type = Rook /\ mv.from = Position(8, back_rank(color))
       THEN [long |-> g.able_to_long_castle,
             short |-> set_color(g.able_to_short_castle, color, FALSE)]
       ELSE [long |-> g.able_to_long_castle, short |-> g.able_to_short_castle]

\* Lines 476-501: the castling flags after mv.
castling_rights_after(g, mv) ==
    LET color == mv.piece.color
        long == of_color(g.able_to_long_castle, color)
        short == of_color(g.able_to_short_castle, color)
    IN IF (mv.piece.piece_type = King \/ mv.piece.piece_type = Rook) /\ (long \/ short)
       THEN IF mv.piece.piece_type = King
            THEN [long |-> set_color(g.able_to_long_castle, color, FALSE),
                  short |-> set_color(g.able_to_short_castle, color, FALSE)]
            ELSE IF mv.from = Position(1, back_rank(color))
            THEN [long |-> set_color(g.able_to_long_castle, color, FALSE),
                  short |-> g.able_to_short_castle]
            ELSE IF mv.from = Position(8, back_rank(color))
            THEN [long |-> g.able_to_long_castle,
                  short |-> set_color(g.able_to_short_castle, color, FALSE)]
            ELSE [long |-> g.able_to_long_castle, short |-> g.able_to_short_castle]
       ELSE [long |-> g.able_to_long_castle, short |-> g.able_to_short_castle]

\* Lines 512-522: count the position in the repetition table.
count_key(table, key) ==
    IF key \in DOMAIN table
    THEN [table EXCEPT ![key] = @ + 1]
    ELSE (key :> 1) @@ table

repetitions_after(g) == count_key(g.number_of_repeated_board_states, repetition_key(g))

\* Mutant: the two outcomes of a position without moves are exchanged.
mate_outcome_exchanged(g) ==
    IF no_possible_moves(g, g.turn)
    THEN IF check(g, g.turn) THEN <<"StaleMate">> ELSE <<"CheckMate">>
    ELSE <<"None">>

\* Mutant: a check counts as mate whatever moves the side to move has.
mate_outcome_on_check(g) ==
    IF check(g, g.turn) THEN <<"CheckMate">>
    ELSE IF no_possible_moves(g, g.turn) THEN <<"StaleMate">>
    ELSE <<"None">>

\* Lines 524-536 and 550-558: the outcome of the position reached.
mate_outcome(g) ==
    IF no_possible_moves(g, g.turn)
    THEN IF check(g, g.turn) THEN <<"CheckMate">> ELSE <<"StaleMate">>
    ELSE <<"None">>

is_promotion_move(mv) ==
    mv.piece.piece_type = Pawn /\ mv.move_type = Normal /\ (mv.to.y = 8 \/ mv.to.y = 1)

\* Mutant: the promotion move hands the turn over like any other move.
apply_promotion_move_turn_flipped(g, mv) ==
    Result([g EXCEPT !.turn = invert(g.turn),
                     !.board = [[g.board EXCEPT ![as_index(mv.from)] = NoPiece]
                                         EXCEPT ![as_index(mv.to)] = mv.piece],
                     !.history = Append(g.history, mv)],
           <<"Promotion", mv.to>>)

\* Lines 426-430: the pawn is put on its last rank and the move recorded;
\* nothing else of the game is touched.
apply_promotion_move(g, mv) ==
    Result([g EXCEPT !.board = [[g.board EXCEPT ![as_index(mv.from)] = NoPiece]
                                         EXCEPT ![as_index(mv.to)] = mv.piece],
                     !.history = Append(g.history, mv)],
           <<"Promotion", mv.to>>)

\* Lines 433-461: the turn, the piece, the en passant victim, the castle rook.
relocated(g, mv) ==
    [g EXCEPT !.turn = invert(g.turn),
              !.board = board_after_castle(board_after_relocation(g.board, mv), mv)]

\* Lines 463-464, 544-545: the attacked squares are stored, then the king
\* threats are computed on the game that holds them.
with_protected_squares(g) ==
    [g EXCEPT !.protected_squares = get_all_protected_squares(g, TRUE)]

with_pieces_attacking_king(g) ==
    [g EXCEPT !.pieces_attacking_king = find_pieces_attacking_king(g, TRUE)]

\* Mutant: the move is put in front of the history.
recorded_in_front(g, mv, rights) ==
    [g EXCEPT
       !.captured = IF mv.captured_piece # NoPiece
                    THEN set_color(g.captured, mv.piece.color,
                                   Append(of_color(g.captured, mv.piece.color),
                                          mv.captured_piece))
                    ELSE g.captured,
       !.able_to_long_castle = rights.long,
       !.able_to_short_castle = rights.short,
       !.number_of_moves_without_captures_or_pawn_moves =
           IF ~(mv.captured_piece # NoPiece \/ mv.piece.piece_type = Pawn)
           THEN g.number_of_moves_without_captures_or_pawn_moves + 1
           ELSE 0,
       !.history = <<mv>> \o g.history]

\* Lines 466-510: captured list, castling flags, fifty-move counter, history.
recorded(g, mv, rights) ==
    [g EXCEPT
       !.captured = IF mv.captured_piece # NoPiece
                    THEN set_color(g.captured, mv.piece.color,
                                   Append(of_color(g.captured, mv.piece.color),
                                          mv.captured_piece))
                    ELSE g.captured,
       !.able_to_long_castle = rights.long,
       !.able_to_short_castle = rights.short,
       !.number_of_moves_without_captures_or_pawn_moves =
           IF ~(mv.captured_piece # NoPiece \/ mv.piece.piece_type = Pawn)
           THEN g.number_of_moves_without_captures_or_pawn_moves + 1
           ELSE 0,
       !.history = Append(g.history, mv)]

with_repetition_counted(g) ==
    [g EXCEPT !.number_of_repeated_board_states = repetitions_after(g)]

\* Mutant: the draw is tested before the mate.
move_outcome_draw_first(g, mate) ==
    IF is_a_draw(g) THEN Result(g, <<"Draw">>) ELSE Result(g, mate)

\* Lines 524-538: mate, then draw, then None.
move_outcome(g, mate) ==
    IF mate # <<"None">> THEN Result(g, mate)
    ELSE IF is_a_draw(g) THEN Result(g, <<"Draw">>)
    ELSE Result(g, <<"None">>)

with_outcome(g) == move_outcome(g, mate_outcome(g))

\* Lines 433-538.  The castling flags are decided on the flags before the
\* move; no step between reads them.
apply_move(g, mv) ==
    with_outcome(
        with_repetition_counted(
            recorded(with_pieces_attacking_king(with_protected_squares(relocated(g, mv))),
                     mv, castling_rights_after(g, mv))))

\* Mutant: the turn is handed over before the move is looked up.
process_found_turn_first(g, found) ==
    IF found = <<>> THEN Result([g EXCEPT !.turn = invert(g.turn)], <<"InvalidMove">>)
    ELSE IF is_promotion_move(Head(found)) THEN apply_promotion_move(g, Head(found))
    ELSE apply_move(g, Head(found))

process_found(g, found) ==
    IF found = <<>> THEN Result(g, <<"InvalidMove">>)
    ELSE IF is_promotion_move(Head(found)) THEN apply_promotion_move(g, Head(found))
    ELSE apply_move(g, Head(found))

process_move(g, from, to) == process_found(g, get_move_if_valid(g, from, to))

promoted(g, piece, pos) ==
    [g EXCEPT !.turn = invert(g.turn),
              !.board = [g.board EXCEPT ![as_index(pos)] = piece]]

with_mate_outcome(g) == Result(g, mate_outcome(g))

\* board[pos.as_index()] fails: a file below 'a' or a rank below '1' makes the
\* u8 subtraction of as_index overflow (a panic with overflow checks, a
\* value of 248 or more without them), and an index of 64 or more is out of
\* the bounds of the board.
as_index_fails(pos) == pos.x < 1 \/ pos.y < 1 \/ as_index(pos) > TOTAL_SQUARES

\* Lines 541-559.  A panic is the outcome <<"Panic">>; the game it leaves
\* behind holds the assignments made before the failing statement.
process_promotion(g, piece, pos) ==
    IF as_index_fails(pos)
    THEN Result([g EXCEPT !.turn = invert(g.turn)], <<"Panic">>)
    ELSE with_mate_outcome(
             with_pieces_attacking_king(with_protected_squares(promoted(g, piece, pos))))

\* Lines 417-564; the last arm is unreachable!().
process_input(g, user_input) ==
    IF user_input.kind = "Move"
    THEN process_move(g, user_input.from, user_input.to)
    ELSE IF user_input.kind = "Promotion"
    THEN process_promotion(g, user_input.piece, user_input.pos)
    ELSE Result(g, <<"Panic">>)

(***************************************************************************)
(* The state machine.  The ten fields of the Game struct are the program's   *)
(* state; output is the value the last process_input call returned and       *)
(* submitted the inputs of all calls so far.  Four variables record what    *)
(* calls so far have been: promotion_pending (a Promotion outcome has not    *)
(* been answered by a Promotion input), regular (every Promotion outcome was *)
(* answered by a Promotion input at once, and no other Promotion input was   *)
(* made), game_over (CheckMate, StaleMate or Draw has been returned) and     *)
(* mated (CheckMate or StaleMate has been returned and every input since    *)
(* has been a Move).                                                         *)
(* The graphical front end keeps four values next to its Game: finished,    *)
(* user_output (the value its last frame has kept), selected_piece (<<>> or  *)
(* <<square>> of the piece held with the mouse) and restarts, the number of  *)
(* times Space has replaced the Game; submitted then holds the inputs passed *)
(* to the present Game.  The other callers leave these four untouched.       *)
(* occurrences counts, per position (side to move, board, move set), how    *)
(* often the game has reached it: the position of Game::new, the position   *)
(* after each applied move and the position after each promotion input;     *)
(* times_reached is the count of the position the last call reached, or 0   *)
(* if that call reached none.  schedule is the order in which the worker    *)
(* threads take their turns in this run of the program.                     *)
(* The caller replays one of the recorded games of Lines, input by input,    *)
(* and may at any point submit one of the inputs of Strays instead.          *)
(***************************************************************************)
VARIABLES turn, board, captured, history, number_of_repeated_board_states,
          number_of_moves_without_captures_or_pawn_moves,
          able_to_long_castle, able_to_short_castle,
          protected_squares, pieces_attacking_king,
          output, submitted, promotion_pending, regular, game_over, mated, strays,
          occurrences, times_reached, schedule,
          finished, user_output, selected_piece, restarts

game_vars == <<turn, board, captured, history, number_of_repeated_board_states,
               number_of_moves_without_captures_or_pawn_moves,
               able_to_long_castle, able_to_short_castle,
               protected_squares, pieces_attacking_king>>

gui_vars == <<finished, user_output, selected_piece, restarts>>

vars == <<turn, board, captured, history, number_of_repeated_board_states,
          number_of_moves_without_captures_or_pawn_moves,
          able_to_long_castle, able_to_short_castle,
          protected_squares, pieces_attacking_king,
          output, submitted, promotion_pending, regular, game_over, mated, strays,
          occurrences, times_reached, schedule,
          finished, user_output, selected_piece, restarts>>

\* The Game struct of the current state.
Game ==
    [turn |-> turn,
     board |-> board,
     captured |-> captured,
     history |-> history,
     protected_squares |-> protected_squares,
     pieces_attacking_king |-> pieces_attacking_king,
     number_of_moves_without_captures_or_pawn_moves |->
         number_of_moves_without_captures_or_pawn_moves,
     number_of_repeated_board_states |-> number_of_repeated_board_states,
     able_to_long_castle |-> able_to_long_castle,
     able_to_short_castle |-> able_to_short_castle,
     schedule |-> schedule]

\* A Move input in coordinates: files a..h are 1..8.
M(x1, y1, x2, y2) == MoveInput(Position(x1, y1), Position(x2, y2))

\* f2f3 e7e5 g2g4 d8h4, then two more inputs.
FoolsMate ==
    <<M(6, 2, 6, 3), M(5, 7, 5, 5), M(7, 2, 7, 4), M(4, 8, 8, 4),
      M(5, 1, 6, 2), M(1, 7, 1, 6)>>

\* e2e4 e7e5 f1c4.
BishopOpening == <<M(5, 2, 5, 4), M(5, 7, 5, 5), M(6, 1, 3, 4)>>

\* d2d3 c7c6 c1d2 d8a5 h2h3 e7e6 g2g3 e8e7 h3h4 e7f6 d2c3: the white bishop
\* stands between the black queen on a5 and the white king on e1, and from c3
\* it faces the black king on f6 along the empty squares d4 and e5.
PinnedBishop ==
    <<M(4, 2, 4, 3), M(3, 7, 3, 6), M(3, 1, 4, 2), M(4, 8, 1, 5),
      M(8, 2, 8, 3), M(5, 7, 5, 6), M(7, 2, 7, 3), M(5, 8, 5, 7),
      M(8, 3, 8, 4), M(5, 7, 6, 6), M(4, 2, 3, 3), M(8, 7, 8, 6)>>

\* e2e4 d7d5 e4d5 e7e6 d5e6 c8d7 e6d7 e8e7 h2h3 e7f6 a2a3 d8e8 d7e8: the
\* black queen gives check from e8 and the pawn on d7 captures it; then the
\* promotion to a queen.
CheckedThenPromotes ==
    <<M(5, 2, 5, 4), M(4, 7, 4, 5), M(5, 4, 4, 5), M(5, 7, 5, 6),
      M(4, 5, 5, 6), M(3, 8, 4, 7), M(5, 6, 4, 7), M(5, 8, 5, 7),
      M(8, 2, 8, 3), M(5, 7, 6, 6), M(1, 2, 1, 3), M(4, 8, 5, 8),
      M(4, 7, 5, 8), PromotionInput(Piece(Queen, White), Position(5, 8))>>

\* h2h4 g7g5 h4g5 h7h6 g5h6 a7a6 h6h7 a6a5 h7g8, a2a3 while the promotion is
\* pending, the promotion to a queen, then a5a4.
PawnToLastRank ==
    <<M(8, 2, 8, 4), M(7, 7, 7, 5), M(8, 4, 7, 5), M(8, 7, 8, 6),
      M(7, 5, 8, 6), M(1, 7, 1, 6), M(8, 6, 8, 7), M(1, 6, 1, 5),
      M(8, 7, 7, 8), M(1, 2, 1, 3),
      PromotionInput(Piece(Queen, White), Position(7, 8)), M(1, 5, 1, 4)>>

\* The same pawn, promoted at once: h7g8, the promotion to a knight, h8g8.
PromoteAtOnce ==
    <<M(8, 2, 8, 4), M(7, 7, 7, 5), M(8, 4, 7, 5), M(8, 7, 8, 6),
      M(7, 5, 8, 6), M(1, 7, 1, 6), M(8, 6, 8, 7), M(1, 6, 1, 5),
      M(8, 7, 7, 8),
      PromotionInput(Piece(Knight, White), Position(7, 8)), M(8, 8, 7, 8)>>

\* The same promotion, then b8c6 b1c3 c6b8 c3b1 twice: the position the
\* promotion has reached occurs for the second and for the third time.
PromotedPositionRepeats ==
    SubSeq(PromoteAtOnce, 1, 10)
        \o <<M(2, 8, 3, 6), M(2, 1, 3, 3), M(3, 6, 2, 8), M(3, 3, 2, 1),
             M(2, 8, 3, 6), M(2, 1, 3, 3), M(3, 6, 2, 8), M(3, 3, 2, 1)>>

\* g1f3 g8f6 f3g1 f6g8 twice: the starting position for the third time, then
\* g1f3 again.
Repetition ==
    <<M(7, 1, 6, 3), M(7, 8, 6, 6), M(6, 3, 7, 1), M(6, 6, 7, 8),
      M(7, 1, 6, 3), M(7, 8, 6, 6), M(6, 3, 7, 1), M(6, 6, 7, 8),
      M(7, 1, 6, 3)>>

Lines ==
    <<FoolsMate, BishopOpening, PinnedBishop, PawnToLastRank, PromoteAtOnce,
      CheckedThenPromotes, Repetition>>

\* a3a4 (a square that holds no piece until a pawn is pushed there), b8b6
\* and b1b5 (no knight move), e1e3 and e8e6 (no king move).
Strays ==
    {M(1, 3, 1, 4), M(2, 8, 2, 6), M(2, 1, 2, 5), M(5, 1, 5, 3), M(5, 8, 5, 6)}

\* A run holds at most MaxStrays inputs from Strays.
MaxStrays == 1

\* The inputs with which some game of lines continues the inputs submitted.
NextOfLines(lines) ==
    {lines[l][Len(submitted) + 1] :
        l \in {k \in 1..Len(lines) :
                  /\ Len(lines[k]) > Len(submitted)
                  /\ SubSeq(lines[k], 1, Len(submitted)) = submitted}}

\* The input of the last call.
NoInput == [kind |-> "None"]
input == IF submitted = <<>> THEN NoInput ELSE submitted[Len(submitted)]

\* The state after Game::new, which runs no loop that pushes in parallel.
Constructed ==
    /\ \E g \in {new} :
           /\ turn = g.turn
           /\ board = g.board
           /\ captured = g.captured
           /\ history = g.history
           /\ number_of_repeated_board_states = g.number_of_repeated_board_states
           /\ number_of_moves_without_captures_or_pawn_moves =
                  g.number_of_moves_without_captures_or_pawn_moves
           /\ able_to_long_castle = g.able_to_long_castle
           /\ able_to_short_castle = g.able_to_short_castle
           /\ protected_squares = g.protected_squares
           /\ pieces_attacking_king = g.pieces_attacking_king
    /\ output = <<"None">>
    /\ submitted = <<>>
    /\ promotion_pending = FALSE
    /\ regular = TRUE
    /\ game_over = FALSE
    /\ mated = FALSE
    /\ strays = 0
    /\ occurrences = (repetition_key(NewGameFields) :> 1)
    /\ times_reached = 1
    /\ finished = FALSE
    /\ user_output = <<"None">>
    /\ selected_piece = <<>>
    /\ restarts = 0

Init == Constructed /\ schedule = Sequential

\* The position a call has reached, as <<position>>, or <<>> if the call has
\* reached none (a rejected input, a pawn waiting for its promotion).  After
\* an applied move the position is the key the call has counted in the
\* repetition table.
counted_keys(before, after) ==
    {key \in DOMAIN after : key \notin DOMAIN before \/ after[key] # before[key]}

position_of(g, user_input, r) ==
    IF Head(r.output) \in {"InvalidMove", "Promotion", "Panic"}
    THEN <<>>
    ELSE IF user_input.kind = "Promotion"
    THEN <<repetition_key(r.game)>>
    ELSE <<CHOOSE key \in counted_keys(g.number_of_repeated_board_states,
                                       r.game.number_of_repeated_board_states) : TRUE>>

occurrences_after(table, position) ==
    IF position = <<>> THEN table ELSE count_key(table, Head(position))

\* The fields of the game g become the state of the Game.
StoreGame(g) ==
    /\ turn' = g.turn
    /\ board' = g.board
    /\ captured' = g.captured
    /\ history' = g.history
    /\ number_of_repeated_board_states' = g.number_of_repeated_board_states
    /\ number_of_moves_without_captures_or_pawn_moves' =
           g.number_of_moves_without_captures_or_pawn_moves
    /\ able_to_long_castle' = g.able_to_long_castle
    /\ able_to_short_castle' = g.able_to_short_castle
    /\ protected_squares' = g.protected_squares
    /\ pieces_attacking_king' = g.pieces_attacking_king

\* The record of a call that was made on the game g with user_input and has
\* returned r.
Recorded(g, user_input, r) ==
    \E position \in {position_of(g, user_input, r)} :
        /\ occurrences' = occurrences_after(occurrences, position)
        /\ times_reached' =
               IF position = <<>> THEN 0 ELSE occurrences'[Head(position)]
        /\ output' = r.output
        /\ submitted' = Append(submitted, user_input)
        /\ promotion_pending' =
               IF user_input.kind = "Promotion" THEN FALSE
               ELSE IF Head(r.output) = "Promotion" THEN TRUE
               ELSE promotion_pending
        /\ regular' = (regular /\ (promotion_pending <=> user_input.kind = "Promotion"))
        /\ game_over' = (game_over \/ Head(r.output) \in {"CheckMate", "StaleMate", "Draw"})
        /\ mated' = (\/ Head(r.output) \in {"CheckMate", "StaleMate"}
                     \/ mated /\ user_input.kind = "Move")

\* One call of process_input that returns r: the fields of the returned game
\* are stored and the returned value observed.  A panic ends the program: no
\* call follows.
ProcessInput(user_input, r) ==
    /\ output # <<"Panic">>
    /\ schedule' = schedule
    /\ StoreGame(r.game)
    /\ Recorded(Game, user_input, r)

\* A call made by a caller that has no front end.
Call(user_input) ==
    /\ \E r \in {process_input(Game, user_input)} : ProcessInput(user_input, r)
    /\ UNCHANGED gui_vars

\* The next Move input of a game of lines.
PlayMove(lines) ==
    /\ \E user_input \in NextOfLines(lines) : user_input.kind = "Move" /\ Call(user_input)
    /\ UNCHANGED strays

\* The next Promotion input of a game of lines.
PlayPromotion(lines) ==
    /\ \E user_input \in NextOfLines(lines) :
           user_input.kind = "Promotion" /\ Call(user_input)
    /\ UNCHANGED strays

\* A Move input of Strays.
StrayMove ==
    /\ strays < MaxStrays
    /\ \E user_input \in Strays : Call(user_input)
    /\ strays' = strays + 1

Next == PlayMove(Lines) \/ PlayPromotion(Lines) \/ StrayMove

Spec == Init /\ [][Next]_vars

\* The games in which a pawn reaches its last rank.
PromotionLines ==
    <<PawnToLastRank, PromoteAtOnce, CheckedThenPromotes, PromotedPositionRepeats>>

NextPromotions == PlayMove(PromotionLines) \/ PlayPromotion(PromotionLines) \/ StrayMove

SpecPromotions == Init /\ [][NextPromotions]_vars

\* Fifty plies of knight moves: the knight of b1 walks b1 a3 c4 a5 and back,
\* the knight of g1 makes one step of g1 h3 f4 h5 g3 f5 h4 after each walk,
\* and the knight of g8 goes to f6 and back.  No position occurs twice.
QuietPlies ==
    <<M(2, 1, 1, 3), M(7, 8, 6, 6), M(1, 3, 3, 4), M(6, 6, 7, 8),
      M(3, 4, 1, 5), M(7, 8, 6, 6), M(7, 1, 8, 3), M(6, 6, 7, 8),
      M(1, 5, 3, 4), M(7, 8, 6, 6), M(3, 4, 1, 3), M(6, 6, 7, 8),
      M(1, 3, 2, 1), M(7, 8, 6, 6), M(8, 3, 6, 4), M(6, 6, 7, 8),
      M(2, 1, 1, 3), M(7, 8, 6, 6), M(1, 3, 3, 4), M(6, 6, 7, 8),
      M(3, 4, 1, 5), M(7, 8, 6, 6), M(6, 4, 8, 5), M(6, 6, 7, 8),
      M(1, 5, 3, 4), M(7, 8, 6, 6), M(3, 4, 1, 3), M(6, 6, 7, 8),
      M(1, 3, 2, 1), M(7, 8, 6, 6), M(8, 5, 7, 3), M(6, 6, 7, 8),
      M(2, 1, 1, 3), M(7, 8, 6, 6), M(1, 3, 3, 4), M(6, 6, 7, 8),
      M(3, 4, 1, 5), M(7, 8, 6, 6), M(7, 3, 6, 5), M(6, 6, 7, 8),
      M(1, 5, 3, 4), M(7, 8, 6, 6), M(3, 4, 1, 3), M(6, 6, 7, 8),
      M(1, 3, 2, 1), M(7, 8, 6, 6), M(6, 5, 8, 4), M(6, 6, 7, 8),
      M(2, 1, 1, 3), M(7, 8, 6, 6)>>

\* The fifty plies, then the pawn move h2h3.
QuietThenPawn == QuietPlies \o <<M(8, 2, 8, 3)>>

\* The fifty plies, then the knight move a3c4.
QuietThenKnight == QuietPlies \o <<M(1, 3, 3, 4)>>

QuietLines == <<QuietThenPawn, QuietThenKnight>>

\* d4d5 (d4 stays empty) and e1e3 (no king move).
QuietStrays == {M(4, 4, 4, 5), M(5, 1, 5, 3)}

\* A Move input of QuietStrays.
QuietStrayMove ==
    /\ strays < MaxStrays
    /\ \E user_input \in QuietStrays : Call(user_input)
    /\ strays' = strays + 1

NextQuiet == PlayMove(QuietLines) \/ QuietStrayMove

SpecQuiet == Init /\ [][NextQuiet]_vars

\* b2b3 e7e6 c1a3 f8c5 g1f3 e8e7 g2g3 a7a6 f1g2 h7h6 d2d3 c5b4 e1g1: the
\* black bishop on b4 faces the white king on e1 along the empty squares c3
\* and d2, and it stands between the white bishop on a3 and the black king
\* on e7.
CastlesOutOfCheck ==
    <<M(2, 2, 2, 3), M(5, 7, 5, 6), M(3, 1, 1, 3), M(6, 8, 3, 5),
      M(7, 1, 6, 3), M(5, 8, 5, 7), M(7, 2, 7, 3), M(1, 7, 1, 6),
      M(6, 1, 7, 2), M(8, 7, 8, 6), M(4, 2, 4, 3), M(3, 5, 2, 4),
      M(5, 1, 7, 1)>>

\* e2e4 e7e5 g1f3 g8f6 f1c4 f8c5 e1g1 e8g8.
BothCastleShort ==
    <<M(5, 2, 5, 4), M(5, 7, 5, 5), M(7, 1, 6, 3), M(7, 8, 6, 6),
      M(6, 1, 3, 4), M(6, 8, 3, 5), M(5, 1, 7, 1), M(5, 8, 7, 8)>>

\* d2d4 d7d5 c1f4 c8f5 b1c3 b8c6 d1d2 d8d7 e1c1 e8c8.
BothCastleLong ==
    <<M(4, 2, 4, 4), M(4, 7, 4, 5), M(3, 1, 6, 4), M(3, 8, 6, 5),
      M(2, 1, 3, 3), M(2, 8, 3, 6), M(4, 1, 4, 2), M(4, 8, 4, 7),
      M(5, 1, 3, 1), M(5, 8, 3, 8)>>

\* a2a4 a7a5 a1a3 a8a6 h2h4 h7h5 h1h3 h8h6 a3a1 a6a8: the rooks leave their
\* home squares, and two of them return.
RookLifts ==
    <<M(1, 2, 1, 4), M(1, 7, 1, 5), M(1, 1, 1, 3), M(1, 8, 1, 6),
      M(8, 2, 8, 4), M(8, 7, 8, 5), M(8, 1, 8, 3), M(8, 8, 8, 6),
      M(1, 3, 1, 1), M(1, 6, 1, 8)>>

\* e2e4 e7e5 e1e2 e8e7 e2e1 e7e8: the kings step out and return.
KingWalk ==
    <<M(5, 2, 5, 4), M(5, 7, 5, 5), M(5, 1, 5, 2), M(5, 8, 5, 7),
      M(5, 2, 5, 1), M(5, 7, 5, 8)>>

\* g2g3 b7b6 f1g2 c8a6 g1f3 h7h6 e2e3 h6h5 e1g1: the black bishop on a6
\* attacks f1 along b5, c4, d3 and e2.
CastlesThroughAttack ==
    <<M(7, 2, 7, 3), M(2, 7, 2, 6), M(6, 1, 7, 2), M(3, 8, 1, 6),
      M(7, 1, 6, 3), M(8, 7, 8, 6), M(5, 2, 5, 3), M(8, 6, 8, 5),
      M(5, 1, 7, 1)>>

\* g2g4 b7b6 f1h3 c8b7 g1f3 b7f3 a2a3 f3h1 e1g1: the black bishop captures
\* the knight on f3 and then the rook on h1, which has never moved.
RookCapturedAtHome ==
    <<M(7, 2, 7, 4), M(2, 7, 2, 6), M(6, 1, 8, 3), M(3, 8, 2, 7),
      M(7, 1, 6, 3), M(2, 7, 6, 3), M(1, 2, 1, 3), M(6, 3, 8, 1),
      M(5, 1, 7, 1)>>

CastlingLines ==
    <<CastlesOutOfCheck, BothCastleShort, BothCastleLong, RookLifts, KingWalk,
      CastlesThroughAttack, RookCapturedAtHome>>

\* The four castling inputs: e1g1, e1c1, e8g8, e8c8.
CastlingStrays == {M(5, 1, 7, 1), M(5, 1, 3, 1), M(5, 8, 7, 8), M(5, 8, 3, 8)}

\* A castling input at any point of a game.
CastlingStrayMove ==
    /\ strays < MaxStrays
    /\ \E user_input \in CastlingStrays : Call(user_input)
    /\ strays' = strays + 1

NextCastling == PlayMove(CastlingLines) \/ CastlingStrayMove

SpecCastling == Init /\ [][NextCastling]_vars

\* e2e4 a7a6 e4e5 d7d5 e5d6 c7d6 f1b5: White takes en passant, and later
\* the bishop checks the king along c6 and d7.
EnPassantTaken ==
    <<M(5, 2, 5, 4), M(1, 7, 1, 6), M(5, 4, 5, 5), M(4, 7, 4, 5),
      M(5, 5, 4, 6), M(3, 7, 4, 6), M(6, 1, 2, 5)>>

\* e2e4 a7a6 e4e5 d7d5 h2h3 a6a5 e5d6: the capture is tried one turn late.
EnPassantExpired ==
    <<M(5, 2, 5, 4), M(1, 7, 1, 6), M(5, 4, 5, 5), M(4, 7, 4, 5),
      M(8, 2, 8, 3), M(1, 6, 1, 5), M(5, 5, 4, 6)>>

\* a2a3 e7e5 a3a4 e5e4 d2d4 e4d3 c2d3: Black takes en passant.
EnPassantByBlack ==
    <<M(1, 2, 1, 3), M(5, 7, 5, 5), M(1, 3, 1, 4), M(5, 5, 5, 4),
      M(4, 2, 4, 4), M(5, 4, 4, 3), M(3, 2, 4, 3)>>

\* d2d4 a7a6 e2e4 a6a5: two white pawns side by side, one of them having
\* just advanced two squares.
PawnsSideBySide == <<M(4, 2, 4, 4), M(1, 7, 1, 6), M(5, 2, 5, 4), M(1, 6, 1, 5)>>

\* e2e3 a7a6 e1e2 a6a5 e2d3 a5a4 d3e4 h7h6 c2c4 h6h5 c4c5 d7d5 c5d6: the
\* pawn that advances to d5 lands beside the white pawn on c5 and gives
\* check to the white king on e4.
EnPassantOfCheckingPawn ==
    <<M(5, 2, 5, 3), M(1, 7, 1, 6), M(5, 1, 5, 2), M(1, 6, 1, 5),
      M(5, 2, 4, 3), M(1, 5, 1, 4), M(4, 3, 5, 4), M(8, 7, 8, 6),
      M(3, 2, 3, 4), M(8, 6, 8, 5), M(3, 4, 3, 5), M(4, 7, 4, 5),
      M(3, 5, 4, 6)>>

EnPassantLines ==
    <<EnPassantTaken, EnPassantExpired, EnPassantByBlack, PawnsSideBySide,
      EnPassantOfCheckingPawn>>

\* e5d6, e5f6 and d4e5: captures onto empty squares.
EnPassantStrays == {M(5, 5, 4, 6), M(5, 5, 6, 6), M(4, 4, 5, 5)}

EnPassantStrayMove ==
    /\ strays < MaxStrays
    /\ \E user_input \in EnPassantStrays : Call(user_input)
    /\ strays' = strays + 1

NextEnPassant == PlayMove(EnPassantLines) \/ EnPassantStrayMove

SpecEnPassant == Init /\ [][NextEnPassant]_vars

\* The first file and rank off the board on either side: '`' and 'i', '0'
\* and '9'.
OffBoard == {0, BOARD_SIZE + 1}

\* Move inputs with a square off the board: from a piece of either color, to
\* a square off the board, and from a square off the board.
OffBoardMoves ==
    {MoveInput(Position(1, 2), Position(0, 3)), MoveInput(Position(8, 7), Position(9, 6)),
     MoveInput(Position(5, 1), Position(5, 0)), MoveInput(Position(5, 8), Position(5, 9)),
     MoveInput(Position(9, 1), Position(1, 3)), MoveInput(Position(4, 0), Position(4, 1))}

\* Promotion inputs with a square off the board.
OffBoardPromotions ==
    {PromotionInput(Piece(Queen, White), Position(x, 1)) : x \in OffBoard}
    \cup {PromotionInput(Piece(Queen, White), Position(7, y)) : y \in OffBoard}

\* A Promotion input for a square of the board that no pawn has reached on
\* its way to the last rank: a white pawn for a3.
StrayPromotions == {PromotionInput(Piece(Pawn, White), Position(1, 3))}

ResignInput == [kind |-> "Resign"]
DrawInput == [kind |-> "Draw"]

\* FoolsMate, BishopOpening and PromoteAtOnce, with inputs of the other kinds
\* at any point.
OtherInputLines == <<FoolsMate, BishopOpening, PromoteAtOnce>>

OffBoardMove ==
    /\ strays < MaxStrays
    /\ \E user_input \in OffBoardMoves : Call(user_input)
    /\ strays' = strays + 1

\* A Promotion input that answers no pending promotion.
StrayPromotion ==
    /\ strays < MaxStrays
    /\ \E user_input \in OffBoardPromotions \cup StrayPromotions : Call(user_input)
    /\ strays' = strays + 1

ResignOrDraw ==
    /\ strays < MaxStrays
    /\ \E user_input \in {ResignInput, DrawInput} : Call(user_input)
    /\ strays' = strays + 1

NextOtherInputs ==
    \/ PlayMove(OtherInputLines)
    \/ PlayPromotion(OtherInputLines)
    \/ OffBoardMove
    \/ StrayPromotion
    \/ ResignOrDraw

SpecOtherInputs == Init /\ [][NextOtherInputs]_vars

\* e2e4 d7d5 e4d5 e7e6 b1c3 e6d5 c3e4 a7a6 d1e2 a6a5 e4d6 e8d7 e2b5: the
\* knight gives check from d6 and uncovers the queen on e2, so the king
\* threats of Black hold two entries; the king steps aside, and the queen
\* gives check from b5 along c6.
DoubleCheck ==
    <<M(5, 2, 5, 4), M(4, 7, 4, 5), M(5, 4, 4, 5), M(5, 7, 5, 6),
      M(2, 1, 3, 3), M(5, 6, 4, 5), M(3, 3, 5, 4), M(1, 7, 1, 6),
      M(4, 1, 5, 2), M(1, 6, 1, 5), M(5, 4, 4, 6), M(5, 8, 4, 7),
      M(5, 2, 2, 5)>>

ScheduleLines == <<DoubleCheck>>

\* a3a4 and d4d5 (squares that stay empty), e1e3 and e8e6 (no king move).
ScheduleStrays == {M(1, 3, 1, 4), M(4, 4, 4, 5), M(5, 1, 5, 3), M(5, 8, 5, 6)}

ScheduleStrayMove ==
    /\ strays < MaxStrays
    /\ \E user_input \in ScheduleStrays : Call(user_input)
    /\ strays' = strays + 1

\* The program is run under either schedule.
InitSchedules == Constructed /\ schedule \in Schedules

NextSchedules == PlayMove(ScheduleLines) \/ ScheduleStrayMove

SpecSchedules == InitSchedules /\ [][NextSchedules]_vars

\* g1f3 g8f6 f3g1 f6g8 twice, then f2f3 e7e5 g2g4 d8h4: the starting
\* position has occurred three times when Black gives mate.
RepetitionThenMate == SubSeq(Repetition, 1, 8) \o SubSeq(FoolsMate, 1, 4)

\* e2e3 a7a5 d1h5 a8a6 h5a5 h7h5 h2h4 a6h6 a5c7 f7f6 c7d7 e8f7 d7b7 d8d3 b7b8
\* d3h7 b8c8 f7g6 c8e6: Black is stalemated; then g6g5.
QueenStalemates ==
    <<M(5, 2, 5, 3), M(1, 7, 1, 5), M(4, 1, 8, 5), M(1, 8, 1, 6), M(8, 5, 1, 5),
      M(8, 7, 8, 5), M(8, 2, 8, 4), M(1, 6, 8, 6), M(1, 5, 3, 7), M(6, 7, 6, 6),
      M(3, 7, 4, 7), M(5, 8, 6, 7), M(4, 7, 2, 7), M(4, 8, 4, 3), M(2, 7, 2, 8),
      M(4, 3, 8, 7), M(2, 8, 3, 8), M(6, 7, 7, 6), M(3, 8, 5, 6), M(7, 6, 7, 5)>>

TerminalLines == <<RepetitionThenMate, Repetition, FoolsMate, QueenStalemates>>

NextTerminal == PlayMove(TerminalLines) \/ StrayMove

SpecTerminal == Init /\ [][NextTerminal]_vars

\* e2e4 e7e5 e1e2 e8e7 e2f3 e7f6 h2h3 f6g5 f3g4: the kings walk towards each
\* other; the white pawn on h3 guards g4.
KingsMeet ==
    <<M(5, 2, 5, 4), M(5, 7, 5, 5), M(5, 1, 5, 2), M(5, 8, 5, 7), M(5, 2, 6, 3),
      M(5, 7, 6, 6), M(8, 2, 8, 3), M(6, 6, 7, 5), M(6, 3, 7, 4)>>

\* b1c3 d7d5 c3e4 e8d7 b2b4 d7c6 d2d3 c6b5 c1e3 b5a4 d1d2 a4a3 h2h3 a3b2
\* g2g3 b2a1 e1c1: the black king walks to a1 and takes the rook there, the
\* white king has not moved and b1, c1 and d1 are empty.
KingInTheCorner ==
    <<M(2, 1, 3, 3), M(4, 7, 4, 5), M(3, 3, 5, 4), M(5, 8, 4, 7), M(2, 2, 2, 4),
      M(4, 7, 3, 6), M(4, 2, 4, 3), M(3, 6, 2, 5), M(3, 1, 5, 3), M(2, 5, 1, 4),
      M(4, 1, 4, 2), M(1, 4, 1, 3), M(8, 2, 8, 3), M(1, 3, 2, 2), M(7, 2, 7, 3),
      M(2, 2, 1, 1), M(5, 1, 3, 1)>>

KingLines == <<KingsMeet, KingInTheCorner>>

NextKings == PlayMove(KingLines) \/ StrayMove

SpecKings == Init /\ [][NextKings]_vars

(***************************************************************************)
(* Vocabulary of the properties.                                           *)
(***************************************************************************)
LastOf(seq) == seq[Len(seq)]

piece_on(b, x, y) == at(b, as_index(Position(x, y)))

\* The last call was a Move input that process_input applied.
move_applied == input.kind = "Move" /\ Head(output) # "InvalidMove"

\* The color that made the last applied move.
mover == LastOf(history).piece.color

\* The squares the piece on pos may legally go to, by the query get_valid_moves.
legal_destinations(g, pos) ==
    {mv.to : mv \in {get_valid_moves(g, pos)[i] : i \in 1..Len(get_valid_moves(g, pos))}}

\* The piece on pos attacks the king of color by the movement rules alone:
\* one of its attack moves ends on the king, whatever the pins and the stored
\* king threats.
attacks_king(g, pos, piece, color) ==
    /\ piece.color = invert(color)
    /\ SelectSeq(piece_moves(g, pos, piece, TRUE),
                 LAMBDA mv : mv.captured_piece = Piece(King, color)) # <<>>

king_attacked(g, color) ==
    \E k \in 1..TOTAL_SQUARES :
        attacks_king(g, ALL_POSSIBLE_SQUARES(k),
                     at(g.board, as_index(ALL_POSSIBLE_SQUARES(k))), color)

\* The input could be rejected on what the caller sees: the content of the
\* origin square, the turn and the legal destinations of the piece.
C1_Rejectable(g, from, to) ==
    \/ piece_on(g.board, from.x, from.y) = NoPiece
    \/ piece_on(g.board, from.x, from.y).color # g.turn
    \/ to \notin legal_destinations(g, from)

C1_Step ==
    (LastOf(submitted').kind = "Move"
        /\ C1_Rejectable(Game, LastOf(submitted').from, LastOf(submitted').to))
    => (output' = <<"InvalidMove">> /\ UNCHANGED game_vars)

(***************************************************************************)
(* C1.  A Move input whose origin holds no piece, or a piece of the side    *)
(* not to move, or whose destination is not a legal destination of the      *)
(* piece on the origin, returns InvalidMove and changes no field of Game.   *)
(***************************************************************************)
C1_InvalidMoveLeavesGameUnchanged == [][C1_Step]_vars

\* A rejected Move input whose origin holds a piece of the side not to move.
C1_Witness ==
    /\ input.kind = "Move"
    /\ output = <<"InvalidMove">>
    /\ piece_on(board, input.from.x, input.from.y).color = invert(turn)

(***************************************************************************)
(* C2.  In a game in which every Promotion outcome was answered by a        *)
(* Promotion input, the color that made the move just applied is not in     *)
(* check by check(color).                                                   *)
(***************************************************************************)
C2_MoverNotInCheck == (regular /\ move_applied) => ~check(Game, mover)

(***************************************************************************)
(* C3.  After every applied move and for each color c, check(c) holds       *)
(* exactly if a piece of the other color attacks the king of c by the       *)
(* movement rules alone.                                                    *)
(***************************************************************************)
C3_CheckIffKingAttacked ==
    move_applied => \A c \in Color : check(Game, c) <=> king_attacked(Game, c)

\* The last call applied a move or completed a promotion.
position_reached == Head(output) \notin {"InvalidMove", "Promotion"} /\ submitted # <<>>

C4_Holds(out, moves, in_check, attacked) ==
    /\ out = <<"CheckMate">> => (moves = <<>> /\ in_check /\ attacked)
    /\ out = <<"StaleMate">> => (moves = <<>> /\ ~in_check /\ ~attacked)
    /\ moves = <<>> => out = (IF attacked THEN <<"CheckMate">> ELSE <<"StaleMate">>)

C5_Expected ==
    {<<Position(x, 2), Position(x, y)>> : x \in 1..BOARD_SIZE, y \in {3, 4}}
        \cup {<<Position(2, 1), Position(1, 3)>>, <<Position(2, 1), Position(3, 3)>>,
              <<Position(7, 1), Position(6, 3)>>, <<Position(7, 1), Position(8, 3)>>}

C5_Holds(moves) ==
    /\ Len(moves) = 20
    /\ {<<moves[i].from, moves[i].to>> : i \in 1..Len(moves)} = C5_Expected
    /\ \A i \in 1..Len(moves) :
           /\ moves[i].piece = piece_on(board, moves[i].from.x, moves[i].from.y)
           /\ moves[i].piece =
                  Piece(IF moves[i].from.y = 2 THEN Pawn ELSE Knight, White)
    /\ Cardinality({i \in 1..Len(moves) : moves[i].piece.piece_type = Pawn}) = 16
    /\ Cardinality({i \in 1..Len(moves) : moves[i].piece.piece_type = Knight}) = 4

(***************************************************************************)
(* C5.  On the game Game::new returns, get_all_currently_valid_moves gives  *)
(* exactly 20 moves: the one-square and the two-square advance of each of   *)
(* the 8 white pawns and two jumps of each of the 2 white knights.          *)
(***************************************************************************)
C5_TwentyFirstMoves == submitted = <<>> => C5_Holds(get_all_currently_valid_moves(Game))

\* The new game, with its twenty moves.
C5_Witness == submitted = <<>> /\ Len(get_all_currently_valid_moves(Game)) = 20

\* The piece of the standard starting position on file x of rank y.
C6_Officer(x) ==
    CASE x \in {1, 8} -> Rook
      [] x \in {2, 7} -> Knight
      [] x \in {3, 6} -> Bishop
      [] x = 4 -> Queen
      [] x = 5 -> King

C6_Standard(x, y) ==
    CASE y = 1 -> Piece(C6_Officer(x), White)
      [] y = 2 -> Piece(Pawn, White)
      [] y = 7 -> Piece(Pawn, Black)
      [] y = 8 -> Piece(C6_Officer(x), Black)
      [] OTHER -> NoPiece

C6_OneEntry(table, key) == DOMAIN table = {key} /\ table[key] = 1

(***************************************************************************)
(* C6.  Game::new returns the standard starting position with White to      *)
(* move, an empty history, empty captured lists, the fifty-move counter 0,  *)
(* all four castling flags true, neither side in check and a repetition     *)
(* table of one entry, the initial position, with count 1.                  *)
(***************************************************************************)
C6_NewGame ==
    submitted = <<>> =>
        /\ turn = White
        /\ Len(board) = TOTAL_SQUARES
        /\ \A x \in 1..BOARD_SIZE, y \in 1..BOARD_SIZE : piece_on(board, x, y) = C6_Standard(x, y)
        /\ history = <<>>
        /\ captured = [White |-> <<>>, Black |-> <<>>]
        /\ number_of_moves_without_captures_or_pawn_moves = 0
        /\ \A c \in Color : of_color(able_to_long_castle, c) /\ of_color(able_to_short_castle, c)
        /\ \A c \in Color : ~check(Game, c) /\ ~king_attacked(Game, c)
        /\ C6_OneEntry(number_of_repeated_board_states, repetition_key(Game))

\* The new game: the white king on e1 and one position counted.
C6_Witness ==
    /\ submitted = <<>>
    /\ piece_on(board, 5, 1) = Piece(King, White)
    /\ Cardinality(DOMAIN number_of_repeated_board_states) = 1

\* The history after a call that applied the Move input from -> to.
C7_Appended(before, after, piece, from, to) ==
    /\ Len(after) = Len(before) + 1
    /\ SubSeq(after, 1, Len(before)) = before
    /\ LastOf(after).from = from /\ LastOf(after).to = to /\ LastOf(after).piece = piece

C7_Step ==
    /\ (output' = <<"InvalidMove">> \/ LastOf(submitted').kind = "Promotion")
           => history' = history
    /\ (LastOf(submitted').kind = "Move" /\ output' # <<"InvalidMove">>)
           => /\ C7_Appended(history, history',
                             piece_on(board, LastOf(submitted').from.x, LastOf(submitted').from.y),
                             LastOf(submitted').from, LastOf(submitted').to)
              /\ Len(matching_moves(Game, LastOf(submitted').from, LastOf(submitted').to)) = 1
    /\ submitted' = BishopOpening
           => /\ Len(history') = 3
              /\ \A i \in 1..3 : /\ history'[i].from = BishopOpening[i].from
                                 /\ history'[i].to = BishopOpening[i].to
              /\ output' = <<"None">>

(***************************************************************************)
(* C7.  The history is ordered and append-only: a call that applies a Move  *)
(* appends exactly that move, a call that returns InvalidMove and a         *)
(* Promotion input append nothing, and no call changes an earlier entry;    *)
(* the assertion of get_move_if_valid holds on every applied move.  After   *)
(* e2e4, e7e5, f1c4 the history is exactly these three moves.               *)
(***************************************************************************)
C7_HistoryAppendOnly == [][C7_Step]_vars

\* The three moves of the bishop opening have been applied.
C7_Witness == submitted = BishopOpening /\ Len(history) = 3 /\ LastOf(history).piece = Piece(Bishop, White)

C8_Step ==
    (game_over /\ LastOf(submitted').kind = "Move")
        => (board' = board /\ turn' = turn /\ history' = history)

(***************************************************************************)
(* C8.  Once a call has returned CheckMate, StaleMate or Draw, no later     *)
(* Move input changes the board, the turn or the history.                   *)
(***************************************************************************)
C8_OutcomesAreTerminal == [][C8_Step]_vars

last_rank(color) == IF color = White THEN 8 ELSE 1

\* The Move input from -> to of the next call brings a pawn onto its last rank.
C9_PawnArrives(b, from, to) ==
    /\ piece_on(b, from.x, from.y) # NoPiece
    /\ piece_on(b, from.x, from.y).piece_type = Pawn
    /\ to.y = last_rank(piece_on(b, from.x, from.y).color)

C9_Step ==
    /\ (LastOf(submitted').kind = "Move" /\ output' # <<"InvalidMove">>)
           => IF C9_PawnArrives(board, LastOf(submitted').from, LastOf(submitted').to)
              THEN /\ output' = <<"Promotion", LastOf(submitted').to>>
                   /\ piece_on(board', LastOf(submitted').to.x, LastOf(submitted').to.y)
                          = piece_on(board, LastOf(submitted').from.x, LastOf(submitted').from.y)
                   /\ turn' = turn
                   /\ turn' = LastOf(history').piece.color
              ELSE Head(output') # "Promotion"
    /\ (Head(output) = "Promotion" /\ LastOf(submitted').kind = "Promotion"
            /\ LastOf(submitted').pos = output[2])
           => /\ turn = LastOf(history).piece.color
              /\ turn' = invert(turn)
              /\ piece_on(board', output[2].x, output[2].y) = LastOf(submitted').piece
              /\ Head(output') # "Promotion"

(***************************************************************************)
(* C9.  An applied Move that brings a pawn onto its last rank returns       *)
(* Promotion(destination) with the pawn on the destination and the turn     *)
(* still the mover's; the Promotion input that follows flips the turn, and  *)
(* the chosen piece then stands on the destination.                         *)
(***************************************************************************)
C9_PromotionInTwoCalls == [][C9_Step]_vars

\* A promotion answered at once: the knight stands on g8 and Black is to move.
C9_Witness ==
    /\ submitted = SubSeq(PromoteAtOnce, 1, 10)
    /\ piece_on(board, 7, 8) = Piece(Knight, White)
    /\ turn = Black

C10_Step ==
    (promotion_pending /\ LastOf(submitted').kind = "Move")
        => (output' = <<"InvalidMove">> /\ UNCHANGED game_vars)

(***************************************************************************)
(* C10.  While a promotion is pending, every Move input is rejected and     *)
(* leaves the game unchanged.                                               *)
(***************************************************************************)
C10_PendingPromotionRejectsMoves == [][C10_Step]_vars

\* The fifty-move rule of is_a_draw counts plies.
FiftyPlies == 50

\* A move that is neither a capture nor a pawn move.
quiet(mv) == mv.captured_piece = NoPiece /\ mv.piece.piece_type # Pawn

\* The last n moves of the history h are quiet.
quiet_run(h, n) == Len(h) >= n /\ \A i \in (Len(h) - n + 1)..Len(h) : quiet(h[i])

C11_Step ==
    (quiet_run(history, FiftyPlies)
        /\ LastOf(submitted').kind = "Move" /\ output' # <<"InvalidMove">>)
    => output' = <<"Draw">>

(***************************************************************************)
(* C11.  After 50 consecutive applied plies none of which is a capture or   *)
(* a pawn move, the next call that applies a move returns Draw.             *)
(***************************************************************************)
C11_FiftyMoveDraw == [][C11_Step]_vars

(***************************************************************************)
(* C12.  The call that reaches a position (side to move, board, move set)   *)
(* for the third time since Game::new returns Draw; the position of         *)
(* Game::new and the positions reached by promotion inputs count.           *)
(***************************************************************************)
C12_ThirdOccurrenceIsDraw == times_reached = 3 => output = <<"Draw">>

\* The castle of move_type is among the legal moves of the king of color.
castle_is_legal(g, color, move_type) ==
    SelectSeq(get_valid_moves(g, Position(5, back_rank(color))),
              LAMBDA mv : mv.piece = Piece(King, color) /\ mv.move_type = move_type) # <<>>

\* Some piece of color attacks pos by the movement rules alone.
square_attacked(g, pos, color) ==
    \E k \in 1..TOTAL_SQUARES :
        /\ at(g.board, as_index(ALL_POSSIBLE_SQUARES(k))).color = color
        /\ \E mv \in {piece_moves(g, ALL_POSSIBLE_SQUARES(k),
                                   at(g.board, as_index(ALL_POSSIBLE_SQUARES(k))), TRUE)[i] :
                          i \in 1..Len(piece_moves(g, ALL_POSSIBLE_SQUARES(k),
                                   at(g.board, as_index(ALL_POSSIBLE_SQUARES(k))), TRUE))} :
               mv.to = pos

\* The four conditions of a castle: rights is the flag of the castle, between
\* the files between king and rook, passed the files the king passes and
\* lands on.
C13_Conditions(g, color, rights, between, passed) ==
    /\ ~king_attacked(g, color)
    /\ rights
    /\ \A x \in between : piece_on(g.board, x, back_rank(color)) = NoPiece
    /\ \A x \in passed : ~square_attacked(g, Position(x, back_rank(color)), invert(color))

(***************************************************************************)
(* C13: in every reachable state a short (long) castle is among the legal  *)
(* moves of the side to move only if its king is not attacked, the rights   *)
(* flag of that castle is true, the squares between king and rook are empty *)
(* (f, g; b, c, d) and no opposing piece attacks a square the king passes   *)
(* or lands on (f, g; d, c).                                               *)
(***************************************************************************)
C13_CastleOnlyUnderFourConditions ==
    /\ castle_is_legal(Game, turn, ShortCastle)
           => C13_Conditions(Game, turn, of_color(able_to_short_castle, turn), {6, 7}, {6, 7})
    /\ castle_is_legal(Game, turn, LongCastle)
           => C13_Conditions(Game, turn, of_color(able_to_long_castle, turn), {2, 3, 4}, {3, 4})

\* The flags of color are the same before and after the step.
rights_kept(color) ==
    /\ of_color(able_to_long_castle', color) = of_color(able_to_long_castle, color)
    /\ of_color(able_to_short_castle', color) = of_color(able_to_short_castle, color)

\* What the applied move mv revokes.
C16_Revoked(mv) ==
    /\ rights_kept(invert(mv.piece.color))
    /\ mv.piece.piece_type = King
           => /\ ~of_color(able_to_long_castle', mv.piece.color)
              /\ ~of_color(able_to_short_castle', mv.piece.color)
    /\ (mv.piece.piece_type = Rook /\ mv.from = Position(1, back_rank(mv.piece.color)))
           => ~of_color(able_to_long_castle', mv.piece.color)
    /\ (mv.piece.piece_type = Rook /\ mv.from = Position(8, back_rank(mv.piece.color)))
           => ~of_color(able_to_short_castle', mv.piece.color)

C16_Step ==
    /\ \A color \in Color :
           /\ of_color(able_to_long_castle', color) => of_color(able_to_long_castle, color)
           /\ of_color(able_to_short_castle', color) => of_color(able_to_short_castle, color)
    /\ Len(history') = Len(history) + 1 => C16_Revoked(LastOf(history'))
    /\ history' = history => \A color \in Color : rights_kept(color)

(***************************************************************************)
(* C16: a king move (a castle too) makes both flags of its color false, a   *)
(* rook move from the a-file home square the long flag and from the h-file *)
(* home square the short flag; along every sequence of calls a flag that    *)
(* is false stays false, and a move never changes the flags of the other   *)
(* color.                                                                  *)
(***************************************************************************)
C16_CastlingRightsRevoked == [][C16_Step]_vars

\* The white rook has left a1 and is back on it with the last move, the long
\* flag of White is false and the flags of Black are as the black rook moves
\* have left them.
C16_Witness ==
    /\ history # <<>>
    /\ LastOf(history).piece = Piece(Rook, White)
    /\ LastOf(history).to = Position(1, 1)
    /\ piece_on(board, 1, 1) = Piece(Rook, White)
    /\ ~able_to_long_castle.White
    /\ ~able_to_short_castle.White
    /\ ~able_to_long_castle.Black

\* An en passant capture is among the legal moves of the piece on pos: a
\* move of that type which the movement rules generate is among the moves of
\* get_valid_moves.
enpassant_is_legal(g, pos) ==
    \E mv \in {piece_moves(g, pos, at(g.board, as_index(pos)), FALSE)[i] :
                  i \in 1..Len(piece_moves(g, pos, at(g.board, as_index(pos)), FALSE))} :
        mv.move_type = Enpassant /\ Contains(get_valid_moves(g, pos), mv)

\* The last move of h is a two-square advance of a pawn of color that has
\* landed directly beside pos.
advanced_beside(h, pos, color) ==
    /\ h # <<>>
    /\ LastOf(h).piece = Piece(Pawn, color)
    /\ Abs(LastOf(h).to.y - LastOf(h).from.y) = 2
    /\ LastOf(h).to.y = pos.y
    /\ Abs(LastOf(h).to.x - pos.x) = 1

(***************************************************************************)
(* C14: an en passant capture is among the legal moves of a pawn only if   *)
(* the last move of the history is a two-square advance of a pawn of the    *)
(* other color that landed directly beside it; so the capture is available *)
(* for one ply only.                                                       *)
(***************************************************************************)
C14_EnPassantOnlyRightAfterAdvance ==
    \A k \in 1..TOTAL_SQUARES :
        (/\ at(board, as_index(ALL_POSSIBLE_SQUARES(k))).piece_type = Pawn
         /\ enpassant_is_legal(Game, ALL_POSSIBLE_SQUARES(k)))
            => advanced_beside(history, ALL_POSSIBLE_SQUARES(k),
                               invert(at(board, as_index(ALL_POSSIBLE_SQUARES(k))).color))

\* The en passant captures among moves.
enpassant_captures(moves) == SelectSeq(moves, LAMBDA mv : mv.move_type = Enpassant)

\* The pawn of the side to move on pos has, beside the moves it has when no
\* pawn has just advanced, exactly one more: the capture of the pawn that
\* the last move advanced, onto the square behind it.
C15_OneMoreMove(g, pos, valid_moves) ==
    /\ SelectSeq(valid_moves, LAMBDA mv : mv.move_type # Enpassant)
           = get_valid_moves([g EXCEPT !.history = <<>>], pos)
    /\ Len(enpassant_captures(valid_moves)) = 1
    /\ Head(enpassant_captures(valid_moves)).to
           = add(LastOf(g.history).to, 0, pawn_direction(g.turn))
    /\ Head(enpassant_captures(valid_moves)).captured_piece = LastOf(g.history).piece

C15_Gains ==
    \A k \in 1..TOTAL_SQUARES :
        (/\ at(board, as_index(ALL_POSSIBLE_SQUARES(k))) = Piece(Pawn, turn)
         /\ advanced_beside(history, ALL_POSSIBLE_SQUARES(k), invert(turn)))
            => C15_OneMoreMove(Game, ALL_POSSIBLE_SQUARES(k),
                               get_valid_moves(Game, ALL_POSSIBLE_SQUARES(k)))

\* The effects of the applied en passant capture mv of the pawn advanced.
C15_Effects(mv, advanced) ==
    /\ board' = [[[board EXCEPT ![as_index(mv.from)] = NoPiece]
                          EXCEPT ![as_index(advanced.to)] = NoPiece]
                          EXCEPT ![as_index(mv.to)] = mv.piece]
    /\ mv.to = add(advanced.to, 0, pawn_direction(mv.piece.color))
    /\ of_color(captured', mv.piece.color)
           = Append(of_color(captured, mv.piece.color), advanced.piece)
    /\ of_color(captured', invert(mv.piece.color))
           = of_color(captured, invert(mv.piece.color))

C15_Step ==
    /\ C15_Gains
    /\ (Len(history') = Len(history) + 1 /\ LastOf(history').move_type = Enpassant)
           => C15_Effects(LastOf(history'), LastOf(history))

(***************************************************************************)
(* C15: when a pawn of the other color has just advanced two squares       *)
(* beside a pawn of the side to move, that pawn has exactly one legal move *)
(* more, the en passant capture; applying it puts the pawn on the square   *)
(* behind the advanced pawn, empties its origin and the square of the      *)
(* advanced pawn, appends the advanced pawn to the captured list of the    *)
(* mover and changes no other square.                                      *)
(***************************************************************************)
C15_EnPassantOneMoreMove == [][C15_Step]_vars

\* Some square of the input lies off the board.
off_board(pos) == pos.x \notin 1..BOARD_SIZE \/ pos.y \notin 1..BOARD_SIZE

out_of_range(user_input) ==
    \/ user_input.kind = "Move" /\ (off_board(user_input.from) \/ off_board(user_input.to))
    \/ user_input.kind = "Promotion" /\ off_board(user_input.pos)

C17_Step ==
    out_of_range(LastOf(submitted'))
        => output' = <<"InvalidMove">> /\ game_vars' = game_vars

(***************************************************************************)
(* C17: for every Move or Promotion input with a file outside a..h or a    *)
(* rank outside 1..8, process_input returns InvalidMove, does not fail and *)
(* leaves the game unchanged.                                              *)
(***************************************************************************)
C17_OutOfRangeRejected == [][C17_Step]_vars

\* Inputs out of range are set aside: they have a property of their own.
C18_Step ==
    /\ ~out_of_range(LastOf(submitted')) => output' # <<"Panic">>
    /\ LastOf(submitted').kind \in {"Resign", "Draw"}
           => board' = board /\ turn' = turn /\ history' = history

(***************************************************************************)
(* C18: for each of Move, Promotion, Resign and Draw process_input returns *)
(* a value and does not fail, and a Resign or Draw input leaves the board, *)
(* the turn and the history unchanged.                                     *)
(***************************************************************************)
C18_DefinedForEveryInput == [][C18_Step]_vars

\* The counter after the applied move mv.
C20_Counted(mv) ==
    number_of_moves_without_captures_or_pawn_moves' =
        IF quiet(mv) THEN number_of_moves_without_captures_or_pawn_moves + 1 ELSE 0

C20_Step ==
    /\ output' = <<"InvalidMove">>
           => number_of_moves_without_captures_or_pawn_moves'
                  = number_of_moves_without_captures_or_pawn_moves
    /\ (LastOf(submitted').kind = "Move" /\ output' # <<"InvalidMove">>)
           => C20_Counted(LastOf(history'))
    /\ (LastOf(submitted').kind = "Promotion" /\ promotion_pending)
           => number_of_moves_without_captures_or_pawn_moves' = 0

(***************************************************************************)
(* C20: after every applied move, a pawn move onto the last rank and the   *)
(* promotion that completes it included, the fifty-move counter is 0 if    *)
(* the move was a capture or a pawn move and one more than before          *)
(* otherwise; InvalidMove leaves it unchanged.                             *)
(***************************************************************************)
C20_FiftyMoveCounter == [][C20_Step]_vars

\* What a caller can see of a game: its fields other than the two pushed
\* lists, and the check status of each color.
observable(g) ==
    <<g.turn, g.board, g.captured, g.history, g.number_of_repeated_board_states,
      g.number_of_moves_without_captures_or_pawn_moves,
      g.able_to_long_castle, g.able_to_short_castle, check(g, White), check(g, Black)>>

\* get_all_currently_valid_moves, and get_valid_moves of every square, square
\* after square.
answers(g) == <<get_all_currently_valid_moves(g), moves_of_all_squares(g, FALSE, TRUE, Color)>>

\* The game evaluated by one thread.
sequentially(g) == [g EXCEPT !.schedule = Sequential]

C19_Step ==
    /\ \A r \in {process_input(sequentially(Game), LastOf(submitted'))} :
           /\ output' = r.output
           /\ observable(Game') = observable(r.game)
           /\ (schedule # Sequential /\ game_vars' # game_vars)
                  => answers(Game') = answers(r.game)
    /\ (schedule # Sequential /\ submitted = <<>>)
           => answers(Game) = answers(sequentially(Game))

(***************************************************************************)
(* C19: for a given state and input, the value process_input returns, the  *)
(* state it leaves (board, turn, flags, counters, history, check status of *)
(* each color) and the contents and order of get_valid_moves and           *)
(* get_all_currently_valid_moves are the same under every order in which   *)
(* the worker threads push into the lists of attacked squares and of king  *)
(* threats, and equal to those of the evaluation by one thread.            *)
(***************************************************************************)
C19_ParallelismUnobservable == [][C19_Step]_vars

\* The lists of a run under the other schedule differ in order from those
\* one thread builds: Black is in double check, and the threat of the queen
\* on e2 stands before that of the knight on d6.
C19_Witness ==
    /\ schedule = Backward
    /\ Len(pieces_attacking_king.Black) = 2
    /\ Head(pieces_attacking_king.Black).piece = Piece(Queen, White)
    /\ protected_squares # get_all_protected_squares(sequentially(Game), TRUE)

\* The number of pieces of color on the board.
pieces_on_board(b, color) ==
    Cardinality({k \in 1..TOTAL_SQUARES : at(b, k) # NoPiece /\ at(b, k).color = color})

\* The pieces of color on the board and those the other color has captured
\* are the sixteen pieces color started with.
all_accounted_for(g, color) ==
    pieces_on_board(g.board, color) + Len(of_color(g.captured, invert(color))) = 16

\* The captured lists after the move mv of a game that held lists.
C21_Recorded(lists, mv) ==
    IF mv.captured_piece # NoPiece
    THEN set_color(lists, mv.piece.color,
                   Append(of_color(lists, mv.piece.color), mv.captured_piece))
    ELSE lists

C21_Step ==
    /\ (LastOf(submitted').kind = "Move" /\ output' # <<"InvalidMove">>)
           => captured' = C21_Recorded(captured, LastOf(history'))
    /\ \A color \in Color : all_accounted_for(Game', color)

(***************************************************************************)
(* C21: every capture an applied move makes (an ordinary capture, an en    *)
(* passant capture, a pawn capture onto the last rank) appends the         *)
(* captured piece to the list of the capturing color, a move that captures *)
(* nothing leaves both lists unchanged, and in every state reached, for    *)
(* each color, the pieces of that color on the board and those in the      *)
(* list of the other color are 16 together.                                *)
(***************************************************************************)
C21_CapturesRecorded == [][C21_Step]_vars

\* The board a castle of color leaves: the king on the file king_file and
\* the rook on the file rook_file of the back rank, the e-file square and
\* the corner on the file corner_file empty, every other square as on b.
C22_Castled(b, color, king_file, rook_file, corner_file) ==
    [k \in 1..TOTAL_SQUARES |->
        IF k = as_index(Position(king_file, back_rank(color))) THEN Piece(King, color)
        ELSE IF k = as_index(Position(rook_file, back_rank(color))) THEN Piece(Rook, color)
        ELSE IF k = as_index(Position(5, back_rank(color))) THEN NoPiece
        ELSE IF k = as_index(Position(corner_file, back_rank(color))) THEN NoPiece
        ELSE at(b, k)]

\* The last call applied a castle of the given type.
C22_Applied(move_type) ==
    /\ LastOf(submitted').kind = "Move"
    /\ output' # <<"InvalidMove">>
    /\ LastOf(history').move_type = move_type

C22_Step ==
    /\ C22_Applied(ShortCastle)
           => /\ board' = C22_Castled(board, turn, 7, 6, 8)
              /\ turn' = invert(turn)
    /\ C22_Applied(LongCastle)
           => /\ board' = C22_Castled(board, turn, 3, 4, 1)
              /\ turn' = invert(turn)

(***************************************************************************)
(* C22: the call that applies a short castle leaves the king of the mover  *)
(* on the g-file and its rook on the f-file of its back rank with the e-   *)
(* and h-file squares empty; a long castle leaves the king on the c-file   *)
(* and the rook on the d-file with the a- and e-file squares empty; every  *)
(* other square is unchanged and the turn has passed to the other color.   *)
(***************************************************************************)
C22_CastleRelocatesRook == [][C22_Step]_vars

\* Black has castled long after White has: both kings on the c-file, both
\* rooks on the d-file.
C22_Witness ==
    /\ input = M(5, 8, 3, 8)
    /\ output = <<"None">>
    /\ LastOf(history).move_type = LongCastle
    /\ piece_on(board, 3, 8) = Piece(King, Black) /\ piece_on(board, 4, 8) = Piece(Rook, Black)
    /\ piece_on(board, 3, 1) = Piece(King, White) /\ piece_on(board, 4, 1) = Piece(Rook, White)

\* A rook of color that has never moved stands on the corner of the given
\* file: the rook is there, and no move of the game has left that square or
\* arrived on it.
unmoved_rook_on(g, color, file) ==
    /\ piece_on(g.board, file, back_rank(color)) = Piece(Rook, color)
    /\ \A i \in 1..Len(g.history) :
           /\ g.history[i].from # Position(file, back_rank(color))
           /\ g.history[i].to # Position(file, back_rank(color))

(***************************************************************************)
(* C23: whenever a castle is among the legal moves of the side to move, a  *)
(* rook of that color that has never moved stands on the corner of that    *)
(* castle on the back rank of the mover: the h-file for the short castle,  *)
(* the a-file for the long castle.                                         *)
(***************************************************************************)
C23_CastleNeedsRookAtHome ==
    /\ castle_is_legal(Game, turn, ShortCastle) => unmoved_rook_on(Game, turn, 8)
    /\ castle_is_legal(Game, turn, LongCastle) => unmoved_rook_on(Game, turn, 1)

\* The square of the king of color.
king_square(b, color) ==
    ALL_POSSIBLE_SQUARES(CHOOSE k \in 1..TOTAL_SQUARES :
                             at(b, as_index(ALL_POSSIBLE_SQUARES(k))) = Piece(King, color))

Sign(n) == IF n > 0 THEN 1 ELSE IF n < 0 THEN -1 ELSE 0

\* pos lies on the rank, file or diagonal from a to b, strictly between them.
strictly_between(a, b, pos) ==
    /\ a.x = b.x \/ a.y = b.y \/ Abs(b.x - a.x) = Abs(b.y - a.y)
    /\ \E t \in 1..(BOARD_SIZE - 1) :
           /\ t < Abs(b.x - a.x) \/ t < Abs(b.y - a.y)
           /\ pos = Position(a.x + t * Sign(b.x - a.x), a.y + t * Sign(b.y - a.y))

\* pos is the square of the checking piece, which its recorded path starts
\* from, or a square between that piece and the king of color.
on_path_of_checker(g, color, threat, pos) ==
    \/ pos = Head(threat.path)
    \/ strictly_between(Head(threat.path), king_square(g.board, color), pos)

\* The legal moves of the pieces of color other than its king, among moves.
moves_of_other_pieces(moves) == SelectSeq(moves, LAMBDA mv : mv.piece.piece_type # King)

C24_Filtered(g, threats, moves) ==
    /\ Len(threats) > 1 => moves = <<>>
    /\ Len(threats) = 1
           => SelectSeq(moves, LAMBDA mv :
                  ~on_path_of_checker(g, g.turn, Head(threats), mv.to)) = <<>>

(***************************************************************************)
(* C24: when more than one piece is recorded as attacking the king of the  *)
(* side to move, no piece of that side other than the king has a legal     *)
(* move; when exactly one is recorded, every legal move of a piece other   *)
(* than the king ends on the square of the checking piece or on a square   *)
(* between the checking piece and the king.                                *)
(***************************************************************************)
C24_CheckFilter ==
    check(Game, turn)
        => C24_Filtered(Game, of_color(pieces_attacking_king, turn),
                        moves_of_other_pieces(get_all_currently_valid_moves(Game)))

\* Black is in check by the queen on b5 alone, and the pawn c7 may step
\* between the queen and the king on d7.
C24_Witness ==
    /\ turn = Black
    /\ Len(pieces_attacking_king.Black) = 1
    /\ Head(pieces_attacking_king.Black).piece = Piece(Queen, White)
    /\ Head(Head(pieces_attacking_king.Black).path) = Position(2, 5)
    /\ Position(3, 6) \in legal_destinations(Game, Position(3, 7))

\* The squares of the pieces that attack the king of color by the movement
\* rules alone.
checkers_of(g, color) ==
    {ALL_POSSIBLE_SQUARES(k) : k \in {i \in 1..TOTAL_SQUARES :
        attacks_king(g, ALL_POSSIBLE_SQUARES(i),
                     at(g.board, as_index(ALL_POSSIBLE_SQUARES(i))), color)}}

\* The move captures the piece on pos: it ends there, or it is an en passant
\* capture of the pawn there.
captures_piece_on(mv, pos) ==
    \/ mv.to = pos /\ mv.captured_piece # NoPiece
    \/ mv.move_type = Enpassant /\ pos = Position(mv.to.x, mv.from.y)

\* The move answers the check given from the square checker: it captures the
\* checking piece or steps between it and the king, and the king of the
\* mover is not attacked on the board the move leaves.
answers_check(g, mv, checker) ==
    /\ \/ captures_piece_on(mv, checker)
       \/ strictly_between(checker, king_square(g.board, mv.piece.color), mv.to)
    /\ ~king_attacked([g EXCEPT !.board = board_after_relocation(g.board, mv)],
                      mv.piece.color)

\* Every move of the piece on pos by the movement rules that answers the
\* check is among get_valid_moves of pos.
C25_Complete(g, pos, piece, checker) ==
    (piece # NoPiece /\ piece.color = g.turn /\ piece.piece_type # King)
        => SelectSeq(piece_moves(g, pos, piece, FALSE),
                     LAMBDA mv : answers_check(g, mv, checker)
                                 /\ ~Contains(get_valid_moves(g, pos), mv)) = <<>>

(***************************************************************************)
(* C25: when exactly one piece attacks the king of the side to move, every *)
(* move of a piece other than the king that the movement rules allow, that *)
(* captures the checking piece (an en passant capture of a pawn that gives *)
(* check by its two-square advance too) or steps between the checking      *)
(* piece and the king, and that does not leave the own king attacked, is   *)
(* among get_valid_moves of that piece.                                    *)
(***************************************************************************)
C25_SingleCheckComplete ==
    Cardinality(checkers_of(Game, turn)) = 1
        => \A checker \in checkers_of(Game, turn) :
               \A k \in 1..TOTAL_SQUARES :
                   C25_Complete(Game, ALL_POSSIBLE_SQUARES(k),
                                at(board, as_index(ALL_POSSIBLE_SQUARES(k))), checker)

\* The stored caches are those computed for the game g, the attacked squares
\* first and the king threats on the game that holds them.
C26_Recomputed(g, attacked, threats) ==
    /\ attacked = get_all_protected_squares(g, TRUE)
    /\ threats = find_pieces_attacking_king([g EXCEPT !.protected_squares = attacked], TRUE)

C26_Step ==
    board' # board
        => C26_Recomputed([Game EXCEPT !.turn = turn', !.board = board'],
                          protected_squares', pieces_attacking_king')

(***************************************************************************)
(* C26: every call of process_input that changes the board, the Move that  *)
(* returns Promotion included, stores the attacked squares and the king    *)
(* threats computed for the new board, the attacked squares first and the  *)
(* king threats second, so that in no state the board differs from the     *)
(* board the stored caches were computed for.                              *)
(***************************************************************************)
C26_CachesFollowBoard == [][C26_Step]_vars

\* The elements of a list.
Range(seq) == {at(seq, i) : i \in 1..Len(seq)}

\* The squares the piece on the k-th square attacks by the movement rules
\* run for attacks, with no pin filter; none if the square holds no piece of
\* color.
attacked_from(g, k, piece, color) ==
    IF piece # NoPiece /\ piece.color = color
    THEN Range(destinations(piece_moves(g, ALL_POSSIBLE_SQUARES(k), piece, TRUE)))
    ELSE {}

\* The union of the squares the pieces of color attack.
attacked_by(g, color) ==
    UNION {attacked_from(g, k, at(g.board, as_index(ALL_POSSIBLE_SQUARES(k))), color) :
               k \in 1..TOTAL_SQUARES}

(***************************************************************************)
(* C27: after every applied move the attacked squares stored for each      *)
(* color are the union, over the squares that hold a piece of that color,  *)
(* of the squares that piece attacks by the movement rules run for         *)
(* attacks, with no pin filter applied.                                    *)
(***************************************************************************)
C27_AttackedSquaresAreTheUnion ==
    move_applied
        => \A color \in Color :
               Range(of_color(protected_squares, color)) = attacked_by(Game, color)

\* The last call applied a move in full: it was not rejected and it did not
\* stop for the choice of a promotion piece.
move_applied_in_full == move_applied /\ Head(output) # "Promotion"

C28_Ordered(out, moves, draw) ==
    /\ (moves = <<>> /\ draw) => out \in {<<"CheckMate">>, <<"StaleMate">>}
    /\ out = <<"Draw">> => moves # <<>>

(***************************************************************************)
(* C28: when an applied move leaves the side to move without a legal move  *)
(* and, in the state it leaves, the fifty-move counter has reached 50 or a *)
(* position has occurred three times, process_input returns CheckMate or   *)
(* StaleMate and not Draw; it returns Draw only when the side to move has  *)
(* a legal move.                                                           *)
(***************************************************************************)
C28_MateBeforeDraw ==
    move_applied_in_full
        => C28_Ordered(output, get_all_currently_valid_moves(Game), is_a_draw(Game))

\* White is mated by the queen on h4 in a game in which the starting
\* position has occurred three times.
C28_Witness ==
    /\ move_applied_in_full
    /\ get_all_currently_valid_moves(Game) = <<>>
    /\ is_a_draw(Game)
    /\ output = <<"CheckMate">>
    /\ times_reached = 1

\* The table after differs from the table before by one more occurrence of
\* key.
counted_once(before, after, key) ==
    /\ DOMAIN after = DOMAIN before \cup {key}
    /\ \A k \in DOMAIN after :
           after[k] = IF k = key
                      THEN (IF key \in DOMAIN before THEN before[key] + 1 ELSE 1)
                      ELSE before[k]

\* The outcome of a position as an applied move decides it.
C29_Outcome(moves, in_check, draw) ==
    IF moves = <<>> THEN (IF in_check THEN <<"CheckMate">> ELSE <<"StaleMate">>)
    ELSE IF draw THEN <<"Draw">>
    ELSE <<"None">>

C29_Step ==
    (LastOf(submitted').kind = "Promotion" /\ promotion_pending)
        => /\ counted_once(number_of_repeated_board_states,
                           number_of_repeated_board_states', repetition_key(Game'))
           /\ output' = C29_Outcome(get_all_currently_valid_moves(Game'),
                                    check(Game', turn'), is_a_draw(Game'))

(***************************************************************************)
(* C29: the Promotion input that completes a pending promotion counts the  *)
(* position it reaches in the repetition table and returns what an applied *)
(* move returns for that position: CheckMate or StaleMate when the new     *)
(* side to move has no legal move, Draw when the fifty-move counter has    *)
(* reached 50 or a position has occurred three times, None otherwise.      *)
(***************************************************************************)
C29_PromotionReevaluates == [][C29_Step]_vars

\* The Promotion input is not the second step of the pending promotion: none
\* is pending, or pos is not the square the pawn has reached, or the piece
\* is a king, a pawn or a piece of the color that has not moved the pawn.
C30_NotTheSecondStep(user_input) ==
    \/ ~promotion_pending
    \/ user_input.pos # LastOf(history).to
    \/ user_input.piece.piece_type \in {King, Pawn}
    \/ user_input.piece.color # LastOf(history).piece.color

C30_Step ==
    (/\ LastOf(submitted').kind = "Promotion"
     /\ ~off_board(LastOf(submitted').pos)
     /\ C30_NotTheSecondStep(LastOf(submitted')))
        => (board' = board /\ turn' = turn)

(***************************************************************************)
(* C30: a Promotion(piece, pos) input for a square of the board changes    *)
(* neither the board nor the turn when no promotion is pending, when pos   *)
(* is not the square of the pending promotion, or when piece is a king, a  *)
(* pawn or a piece of the other color.                                     *)
(***************************************************************************)
C30_PromotionOnlyWhenPending == [][C30_Step]_vars

\* pos is a square of the board that holds no piece.
empty_square(b, pos) == ~off_board(pos) /\ piece_on(b, pos.x, pos.y) = NoPiece

\* pos is a square of the board that holds a piece of color.
holds_piece_of(b, pos, color) == ~off_board(pos) /\ piece_on(b, pos.x, pos.y).color = color

\* The rank a pawn of color advances towards.
forward(color) == IF color = White THEN 1 ELSE -1

\* The squares a pawn of color on pos may advance to: one square forward if
\* it is empty, two from the starting rank if both are empty.
C31_Advances(b, pos, color) ==
    {Position(pos.x, pos.y + n * forward(color)) : n \in {m \in {1, 2} :
        /\ empty_square(b, Position(pos.x, pos.y + forward(color)))
        /\ m = 2 => /\ pos.y = (IF color = White THEN 2 ELSE 7)
                    /\ empty_square(b, Position(pos.x, pos.y + 2 * forward(color)))}}

\* The two forward diagonals of a pawn of color on pos that are on the board.
C31_Diagonals(pos, color) ==
    {sq \in {Position(pos.x - 1, pos.y + forward(color)),
             Position(pos.x + 1, pos.y + forward(color))} : ~off_board(sq)}

\* The moves of the list that are no en passant captures.
not_enpassant(moves) == SelectSeq(moves, LAMBDA mv : mv.move_type # Enpassant)

\* The rule of the pawn of color on pos: moves are its moves as real moves,
\* attacks its moves when attacks are computed.
C31_PawnRule(b, pos, color, moves, attacks) ==
    /\ {mv.to : mv \in {m \in Range(moves) : m.to.x = pos.x}} = C31_Advances(b, pos, color)
    /\ \A mv \in Range(moves) : mv.to.x = pos.x => mv.captured_piece = NoPiece
    /\ Range(destinations(attacks)) = C31_Diagonals(pos, color)
    /\ {mv.to : mv \in {m \in Range(not_enpassant(moves)) : m.to.x # pos.x}}
           = {sq \in C31_Diagonals(pos, color) : holds_piece_of(b, sq, invert(color))}
    /\ \A mv \in Range(moves) : mv.to.x # pos.x => mv.to \in C31_Diagonals(pos, color)

C31_PawnOn(g, pos, piece) ==
    piece.piece_type = Pawn
        => C31_PawnRule(g.board, pos, piece.color,
                        possbile_pawn_moves(g, pos, piece, FALSE),
                        possbile_pawn_moves(g, pos, piece, TRUE))

(***************************************************************************)
(* C31: a pawn advances one square if that square is empty and two squares *)
(* only from its starting rank (2 for White, 7 for Black) if both squares  *)
(* are empty; when attacks are computed no forward square is reported and  *)
(* both forward diagonals on the board are, whatever they hold; as real    *)
(* moves the diagonals are available only onto an enemy piece or as an en  *)
(* passant capture.                                                        *)
(***************************************************************************)
C31_PawnMoves ==
    \A k \in 1..TOTAL_SQUARES :
        C31_PawnOn(Game, ALL_POSSIBLE_SQUARES(k), at(board, as_index(ALL_POSSIBLE_SQUARES(k))))

\* The white pawn on e2 stands on its starting rank before the black pawn on
\* e4: it advances to e3 alone and attacks d3 and f3, both empty; the black
\* pawn on e4 has the en passant capture on d3 and no other diagonal move.
C31_Witness ==
    /\ piece_on(board, 5, 2) = Piece(Pawn, White)
    /\ piece_on(board, 5, 4) = Piece(Pawn, Black)
    /\ C31_Advances(board, Position(5, 2), White) = {Position(5, 3)}
    /\ Range(destinations(possbile_pawn_moves(Game, Position(5, 2), Piece(Pawn, White), TRUE)))
           = {Position(4, 3), Position(6, 3)}
    /\ Range(destinations(possbile_pawn_moves(Game, Position(5, 4), Piece(Pawn, Black), FALSE)))
           = {Position(5, 3), Position(4, 3)}

\* The moves of the list that go from from to to.
from_to(moves, from, to) == SelectSeq(moves, LAMBDA mv : mv.from = from /\ mv.to = to)

\* The squares that hold a piece of the side to move.
squares_of_turn(g) ==
    {pos \in {ALL_POSSIBLE_SQUARES(k) : k \in 1..TOTAL_SQUARES} :
        at(g.board, as_index(pos)).color = g.turn}

\* The query for all moves yields the moves of get_valid_moves for the squares
\* of the side to move, and no others.
C32_Union(g, valid) ==
    Range(valid) = UNION {Range(get_valid_moves(g, pos)) : pos \in squares_of_turn(g)}

\* The call answered user_input in agreement with the list valid of the
\* query: it applied a move if and only if the list has a move from
\* user_input.from to user_input.to, and then recorded that move.
C32_Agree(user_input, valid, returned, moves_made) ==
    /\ Head(returned) # "InvalidMove" <=> from_to(valid, user_input.from, user_input.to) # <<>>
    /\ Head(returned) # "InvalidMove"
           => from_to(valid, user_input.from, user_input.to) = <<LastOf(moves_made)>>

C32_Step ==
    (~promotion_pending /\ LastOf(submitted').kind = "Move")
        => /\ C32_Union(Game, get_all_currently_valid_moves(Game))
           /\ C32_Agree(LastOf(submitted'), get_all_currently_valid_moves(Game),
                        output', history')

(***************************************************************************)
(* C32: with no promotion pending, process_input applies Move(from, to)    *)
(* if and only if get_all_currently_valid_moves has a move with that from  *)
(* and to, and the move it applies is that one; the list of that query is  *)
(* the union of get_valid_moves over the squares that hold a piece of the  *)
(* side to move.                                                           *)
(***************************************************************************)
C32_InputAgreesWithQueries == [][C32_Step]_vars

\* A pawn has just taken en passant: the call applied the one move of the
\* list with the squares of its input, and now the list of the other side is
\* the union of the lists of its pieces.
C32_Witness ==
    /\ move_applied
    /\ ~promotion_pending
    /\ LastOf(history).move_type = Enpassant
    /\ LastOf(history).from = input.from /\ LastOf(history).to = input.to
    /\ C32_Union(Game, get_all_currently_valid_moves(Game))

\* The number of kings of color on the board.
kings_on_board(b, color) ==
    Cardinality({k \in 1..TOTAL_SQUARES :
                    at(b, as_index(ALL_POSSIBLE_SQUARES(k))) = Piece(King, color)})

\* Two different squares that touch by a side or by a corner.
adjacent(a, b) == a # b /\ Abs(a.x - b.x) <= 1 /\ Abs(a.y - b.y) <= 1

(***************************************************************************)
(* C33: in no state reached from Game::new() by legal moves do the two     *)
(* kings stand on adjacent squares.                                        *)
(***************************************************************************)
C33_KingsApart ==
    (kings_on_board(board, White) = 1 /\ kings_on_board(board, Black) = 1)
        => ~adjacent(king_square(board, White), king_square(board, Black))

\* Every Promotion outcome was answered at once by a Promotion input, no
\* other Promotion input was made, and each named a Queen, Rook, Bishop or
\* Knight of the color whose pawns promote on the rank of its square.
completed_by_officers ==
    /\ regular
    /\ \A i \in 1..Len(submitted) :
           submitted[i].kind = "Promotion"
               => /\ submitted[i].piece.piece_type \in {Queen, Rook, Bishop, Knight}
                  /\ submitted[i].piece.color = (IF submitted[i].pos.y = BOARD_SIZE THEN White ELSE Black)

\* No move of the list takes a king.
takes_no_king(moves) == \A mv \in Range(moves) : mv.captured_piece.piece_type # King

(***************************************************************************)
(* C34: in every state reached from Game::new() by legal moves, with each  *)
(* promotion completed by a Queen, Rook, Bishop or Knight of the mover's   *)
(* color, the board holds exactly one White king and exactly one Black     *)
(* king, no legal move takes a king and no captured list holds a king.     *)
(***************************************************************************)
C34_OneKingEach ==
    completed_by_officers
        => /\ \A color \in Color : kings_on_board(board, color) = 1
           /\ \A color \in Color : \A p \in Range(of_color(captured, color)) : p.piece_type # King
           /\ takes_no_king(get_all_currently_valid_moves(Game))

C35_Step == \A color \in Color : pieces_on_board(board', color) <= pieces_on_board(board, color)

(***************************************************************************)
(* C35: for each color, no call of process_input increases the number of   *)
(* pieces of that color on the board.                                      *)
(***************************************************************************)
C35_PiecesNeverIncrease == [][C35_Step]_vars

C36_Step ==
    (mated /\ LastOf(submitted').kind = "Move")
        => (output' = <<"InvalidMove">> /\ UNCHANGED game_vars)

(***************************************************************************)
(* C36: after process_input has returned CheckMate or StaleMate, every     *)
(* Move input that follows returns InvalidMove and leaves the game         *)
(* unchanged.                                                              *)
(***************************************************************************)
C36_NoMoveAfterMate == [][C36_Step]_vars

\* After the mate of f2f3 e7e5 g2g4 d8h4 two further Move inputs have been
\* made; the second has been rejected like the first and the queen still
\* stands on h4 with White to move.
C36_Witness ==
    /\ mated
    /\ Len(submitted) = 6
    /\ SubSeq(submitted, 1, 4) = SubSeq(FoolsMate, 1, 4)
    /\ output = <<"InvalidMove">>
    /\ Len(history) = 4
    /\ turn = White
    /\ piece_on(board, 8, 4) = Piece(Queen, Black)

\* White's queen on e6 has stalemated Black, and Black's g6g5 has been
\* rejected: the king still stands on g6 with Black to move.
C36_StalemateWitness ==
    /\ mated
    /\ submitted = QueenStalemates
    /\ output = <<"InvalidMove">>
    /\ Len(history) = 19
    /\ turn = Black
    /\ piece_on(board, 7, 6) = Piece(King, Black)

(***************************************************************************)
(* The graphical front end (gui/src/main.rs).  One step is one iteration   *)
(* of the loop of start_game: the keys and the mouse of that frame are its *)
(* inputs.  The human plays White with the mouse, the computer answers for *)
(* Black with play_attacking_king, whose random choices are inputs as      *)
(* well.  The mouse presses and releases on the squares of the recorded    *)
(* games of GuiLines or on a few other squares, the random choices are     *)
(* those that play the recorded answers, and Space is pressed while the    *)
(* mouse button is up and no piece is held.  After a restart or a move off *)
(* the recorded games the user only picks pieces up and puts them down.    *)
(***************************************************************************)
core_vars == <<game_vars, output, submitted, promotion_pending, regular, game_over, mated,
               strays, occurrences, times_reached, schedule>>

\* c2c4 a7a6 c4c5 d7d6 d1a4 b7b5 c5b6 d8d7 b6b7 d7a4 b7c8 and the key Q: the
\* human's pawn takes en passant, reaches the last rank on c8 and mates as a
\* queen.  Each answer of Black is one play_attacking_king can choose.
HumanPromotes ==
    <<M(3, 2, 3, 4), M(1, 7, 1, 6), M(3, 4, 3, 5), M(4, 7, 4, 6), M(4, 1, 1, 4),
      M(2, 7, 2, 5), M(3, 5, 2, 6), M(4, 8, 4, 7), M(2, 6, 2, 7), M(4, 7, 1, 4),
      M(2, 7, 3, 8), PromotionInput(Piece(Queen, White), Position(3, 8))>>

\* f2f3 e7e5 g2g4 d8h4: the computer mates the human.
ComputerMates == SubSeq(FoolsMate, 1, 4)

\* Space is pressed at most MaxRestarts times in a run.
MaxRestarts == 1

\* The recorded games are played until Space is pressed.
GuiLines == IF restarts = 0 THEN <<HumanPromotes, ComputerMates>> ELSE <<>>

\* Squares the mouse is pressed and released on beside those of the recorded
\* games: e1, e8 and the empty e4.
PressStrays == {Position(5, 1), Position(5, 8), Position(5, 4)}

ReleaseStrays == {Position(5, 4)}

PressSquares ==
    {user_input.from : user_input \in {i \in NextOfLines(GuiLines) : i.kind = "Move"}}
        \cup PressStrays

ReleaseSquares ==
    {user_input.to : user_input \in {i \in NextOfLines(GuiLines) : i.kind = "Move"}}
        \cup ReleaseStrays

\* Lines 493-497 of main.rs: the outcomes that end the game.
ends_game(returned) == Head(returned) \in {"CheckMate", "StaleMate", "Draw"}

\* main.rs, lines 194-198.
promote_to_piece(g, pos, piece_type) ==
    process_input(g, PromotionInput(Piece(piece_type, g.turn), pos))

\* main.rs, lines 169-175: tried on a copy of the game, the move mates or leaves the
\* other side in check.
attacks_king_after(g, mv) ==
    \E r \in {process_input(g, MoveInput(mv.from, mv.to))} :
        Head(r.output) = "CheckMate" \/ check(r.game, invert(g.turn))

\* The value of attacks_king_after, computed from the king threats alone.
\* process_input returns CheckMate only where check(self.turn) holds (game.rs,
\* lines 524-526), self.turn then being the other side, and the threats are
\* last written at line 471; a move that asks for a promotion returns at
\* line 430 with the threats of the game it was given.
king_threatened_on_copy(g, mv) ==
    IF is_promotion_move(mv) THEN check(g, invert(g.turn))
    ELSE check(with_pieces_attacking_king(with_protected_squares(relocated(g, mv))),
               invert(g.turn))

\* main.rs, lines 166-185: mv can be move_to_play.  The list is shuffled, so the first
\* move that mates or checks can be any such move; if there is none the first
\* capture can be any capture, and if there is none either the random index
\* can be any move.
move_to_play(g, moves, mv) ==
    \/ king_threatened_on_copy(g, mv)
    \/ /\ \/ mv.captured_piece # NoPiece
          \/ \A other \in Range(moves) : other.captured_piece = NoPiece
       /\ \A other \in Range(moves) \ {mv} : ~king_threatened_on_copy(g, other)

\* The record of the two calls of a computer move that promotes: user_input
\* has returned r1, a Promotion outcome, and the Promotion input promotion,
\* made at once, has returned r2.
RecordedPromoted(user_input, r1, promotion, r2) ==
    \E position \in {position_of(r1.game, promotion, r2)} :
        /\ occurrences' = occurrences_after(occurrences, position)
        /\ times_reached' =
               IF position = <<>> THEN 0 ELSE occurrences'[Head(position)]
        /\ output' = r2.output
        /\ submitted' = submitted \o <<user_input, promotion>>
        /\ promotion_pending' = FALSE
        /\ regular' = (regular /\ ~promotion_pending)
        /\ game_over' = (game_over \/ ends_game(r2.output))
        /\ mated' = (Head(r2.output) \in {"CheckMate", "StaleMate"})

\* main.rs, lines 155-192, when the list of moves is not empty: the move of user_input
\* is played, and a pawn that reaches the last rank becomes a queen.
ComputerMoves(user_input, r1) ==
    IF Head(r1.output) = "Promotion"
    THEN \E r2 \in {promote_to_piece(r1.game, r1.output[2], Queen)} :
             /\ output # <<"Panic">>
             /\ schedule' = schedule
             /\ StoreGame(r2.game)
             /\ RecordedPromoted(user_input, r1,
                                 PromotionInput(Piece(Queen, r1.game.turn), r1.output[2]), r2)
             /\ user_output' = r2.output
             /\ finished' = (finished \/ ends_game(r2.output))
    ELSE /\ ProcessInput(user_input, r1)
         /\ user_output' = r1.output
         /\ finished' = (finished \/ ends_game(r1.output))

\* A frame in which the computer is to move (update_game, lines 341-351, and
\* play_attacking_king, lines 155-192).
ComputerPlays ==
    /\ ~finished /\ Head(user_output) # "Promotion" /\ turn = Black
    /\ \E game \in {Game} : \E moves \in {get_all_currently_valid_moves(game)} :
           IF moves = <<>>
           THEN /\ user_output' = <<"InvalidMove">>
                /\ UNCHANGED <<finished, core_vars>>
           ELSE /\ \E user_input \in {i \in NextOfLines(GuiLines) : i.kind = "Move"} :
                     \E mv \in Range(from_to(moves, user_input.from, user_input.to)) :
                       /\ move_to_play(game, moves, mv)
                       /\ \E r1 \in {process_input(game, user_input)} :
                              ComputerMoves(user_input, r1)
                /\ UNCHANGED strays
    /\ UNCHANGED <<selected_piece, restarts>>

\* A frame of the human's turn with the mouse button down (update_selected_piece,
\* lines 406-431): a piece under the mouse is picked up unless one is held.
HumanPresses ==
    /\ ~finished /\ Head(user_output) # "Promotion" /\ turn = White
    /\ \E pos \in PressSquares :
           selected_piece' =
               IF selected_piece = <<>> /\ at(board, as_index(pos)) # NoPiece
               THEN <<pos>> ELSE selected_piece
    /\ user_output' = <<"None">>
    /\ UNCHANGED <<finished, restarts, core_vars>>

\* A frame of the human's turn with the button up and a piece held (lines
\* 431-449 and 492-498): the move to the square under the mouse is passed to
\* process_input, and a rejected move is not shown.
HumanReleases ==
    /\ ~finished /\ Head(user_output) # "Promotion" /\ turn = White
    /\ selected_piece # <<>>
    /\ \E to \in ReleaseSquares :
         \E user_input \in {MoveInput(Head(selected_piece), to)} :
           /\ \/ user_input \in NextOfLines(GuiLines) /\ strays' = strays
              \/ /\ user_input \notin NextOfLines(GuiLines)
                 /\ strays < MaxStrays
                 /\ strays' = strays + 1
           /\ \E r \in {process_input(Game, user_input)} :
                  /\ ProcessInput(user_input, r)
                  /\ user_output' =
                         IF r.output = <<"InvalidMove">> THEN <<"None">> ELSE r.output
                  /\ finished' = (finished \/ ends_game(user_output'))
    /\ selected_piece' = <<>>
    /\ restarts' = restarts

\* A frame in which a promotion waits for its key and Q, R, B or K is pressed
\* (lines 477-490): the piece is passed to process_input, and finished is
\* not assigned.
PromotionKey ==
    /\ ~finished /\ Head(user_output) = "Promotion"
    /\ \E piece_type \in {Queen, Rook, Bishop, Knight} :
         \E user_input \in {PromotionInput(Piece(piece_type, turn), user_output[2])} :
           /\ user_input \in NextOfLines(GuiLines)
           /\ \E r \in {promote_to_piece(Game, user_output[2], piece_type)} :
                  /\ ProcessInput(user_input, r)
                  /\ user_output' = r.output
    /\ UNCHANGED <<finished, selected_piece, restarts, strays>>

\* A frame in which nothing is passed on: the game is finished, a promotion
\* waits and no key is pressed, or it is the human's turn with the button up
\* and no piece held (update_selected_piece returns None).
Waits ==
    /\ \/ finished
       \/ Head(user_output) = "Promotion"
       \/ turn = White /\ selected_piece = <<>>
    /\ user_output' =
           IF finished \/ Head(user_output) = "Promotion" THEN user_output ELSE <<"None">>
    /\ UNCHANGED <<finished, selected_piece, restarts, core_vars>>

\* A frame in which Space is pressed (lines 471-475): the Game is replaced by
\* Game::new(), and the rest of the frame finds White to move, the button up
\* and no piece held.
Restarts ==
    /\ restarts < MaxRestarts
    /\ selected_piece = <<>>
    /\ restarts' = restarts + 1
    /\ \E g \in {new} :
           /\ StoreGame(g)
           /\ occurrences' = g.number_of_repeated_board_states
    /\ finished' = FALSE
    /\ user_output' = <<"None">>
    /\ output' = <<"None">>
    /\ submitted' = <<>>
    /\ promotion_pending' = FALSE
    /\ regular' = TRUE
    /\ game_over' = FALSE
    /\ mated' = FALSE
    /\ times_reached' = 1
    /\ UNCHANGED <<selected_piece, strays, schedule>>

\* In every frame in which the computer is to move, the two computations of
\* the closure of play_attacking_king agree on every move of its list.
ClosureAgrees ==
    (~finished /\ Head(user_output) # "Promotion" /\ turn = Black) =>
        \A game \in {Game} :
            \A mv \in Range(get_all_currently_valid_moves(game)) :
                attacks_king_after(game, mv) <=> king_threatened_on_copy(game, mv)

NextGui ==
    \/ HumanPresses
    \/ HumanReleases
    \/ ComputerPlays
    \/ PromotionKey
    \/ Waits
    \/ Restarts

SpecGui == Init /\ [][NextGui]_vars

\* The frame has passed an input to process_input.
C37_Called == submitted' # submitted /\ restarts' = restarts

C37_Step ==
    /\ (C37_Called /\ ends_game(output')) => finished'
    /\ (finished /\ restarts' = restarts) => (finished' /\ submitted' = submitted)
    /\ restarts' # restarts => (Game' = new /\ ~finished')

(***************************************************************************)
(* C37: in the loop of the graphical front end, whenever process_input     *)
(* returns CheckMate, StaleMate or Draw, for a move of the human or of the *)
(* computer or for the completion of a human promotion, finished becomes   *)
(* true; while finished is true no input is passed to process_input until  *)
(* Space replaces the Game with Game::new() and clears finished.           *)
(***************************************************************************)
C37_FinishedAfterEveryFinalOutcome == [][C37_Step]_vars

\* No two moves of the list end on the same square.
destinations_differ(moves) ==
    \A i, j \in 1..Len(moves) : at(moves, i).to = at(moves, j).to => i = j

\* possible_moves(pos, false, _) of g reaches the filter of lines 1052-1064
\* for the piece on pos: the piece is not a king, its king is in check, and
\* the guard of the double check has let it pass.
single_check_filter_runs(g, pos) ==
    \E piece \in {at(g.board, as_index(pos))} :
        /\ piece # NoPiece
        /\ piece.piece_type # King
        /\ check(g, piece.color)
        /\ ~(Len(of_color(g.pieces_attacking_king, piece.color)) > 1)

\* A castle or a capture en passant has been played.
special_move_played(g) ==
    \E i \in 1..Len(g.history) :
        at(g.history, i).move_type \in {Enpassant, ShortCastle, LongCastle}

====
